---- MODULE Spec2Model ----
(***************************************************************************)
(* Model of the online match substrate of the number-placement game:      *)
(* the shared npoint document, the two builds of utils/online             *)
(* (src/utils/online.ts: plain overwrite; src/unnamed/part_007: version   *)
(* field and retry loop), the rule engine of utils/gameLogic.ts and the   *)
(* matchmaking / lobby / move handlers of the transactional App.tsx.      *)
(* Display names are left out (they never influence control flow).        *)
(* Times are in seconds.                                                   *)
(***************************************************************************)
EXTENDS Integers, Sequences, FiniteSets, TLC

(***************************************************************************)
(* Bounds                                                                  *)
(***************************************************************************)
MaxGames == 2        \* generateUUID calls for game ids in one run
MaxTx == 4           \* user-started store operations in one run
MaxFailures == 2     \* failed HTTP exchanges in one run
MaxTicks == 1        \* turn budgets the clock may advance by
MaxKeys == 1         \* distinct lobby codes typed by users
MaxEdits == 2        \* changes made to a board before the rule engine is run on it
MaxPlacements == 1   \* numbers placed on a partly filled board before it is scored
MaxSearch == 3       \* empty cells of a board handed to the minimax search

(***************************************************************************)
(* Program constants                                                       *)
(***************************************************************************)
TOTAL_NUMBERS == 10
TURN_SECONDS == 30
FORFEIT_SKIPS == 2
MAX_TX_RETRIES == 5
MAX_CONFLICT_RETRIES == 3

\* budgets of the initial situations: operations started, failed exchanges, clock horizon
TxBudget(sc) == CASE sc = "lobby" -> MaxTx
                  [] sc \in {"fresh", "late", "seek"} -> MaxTx - 1
                  [] sc \in {"stalled", "sweep", "busy"} -> MaxTx - 2
                  [] OTHER -> MaxTx - 3
FailureBudget(sc) == CASE sc = "flaky" -> MaxFailures
                       [] sc = "conflict" -> 1
                       [] OTHER -> 0
Horizon(sc) == CASE sc \in {"slow", "crashed", "sweep", "conflict"} -> MaxTicks * TURN_SECONDS
                 [] sc = "stalled" -> (MaxTicks + 1) * TURN_SECONDS
                 [] OTHER -> 0

Clients == {1, 2, 3}   \* browser clients; the number is the onlineId
GameIds == 1..MaxGames
LobbyKeys == 1..MaxKeys
\* (cell, number) choices offered to a submitting client
MoveCells == {0, 9}
MoveNums == {5, 6}

Null == 0            \* null / undefined / absent field
NoGame == [absent |-> TRUE]
Abort == [abort |-> TRUE]

CellIds == 0..9

\* constants.ts INITIAL_CELLS: type and row of each cell id
CellType(i) == IF i = 9 THEN "master"
               ELSE IF i % 3 = 0 THEN "p1"
               ELSE IF i % 3 = 1 THEN "p2" ELSE "key"
CellRow(i) == IF i = 9 THEN -1 ELSE i \div 3
INITIAL_CELLS == [i \in CellIds |-> Null]

isEven(n) == n % 2 = 0

FilledCount(cells) == Cardinality({i \in CellIds : cells[i] # Null})

\* cells.find(c => c.row === r && c.type === t)
RowCellOf == [r \in 0..2 |-> [t \in {"p1", "p2", "key"} |->
                CHOOSE i \in CellIds : CellRow(i) = r /\ CellType(i) = t]]
RowCell(r, t) == RowCellOf[r][t]
MasterCell == CHOOSE i \in CellIds : CellType(i) = "master"

(***************************************************************************)
(* Rule engine (utils/gameLogic.ts)                                       *)
(***************************************************************************)
\* the rule with its two cases exchanged
RowReasonOpposite(cells, r) ==
  IF isEven(cells[MasterCell]) = isEven(cells[RowCell(r, "key")]) THEN "high" ELSE "low"

RowReason(cells, r) ==
  IF isEven(cells[MasterCell]) = isEven(cells[RowCell(r, "key")]) THEN "low" ELSE "high"

RowWinner(cells, r) ==
  LET p1v == cells[RowCell(r, "p1")]
      p2v == cells[RowCell(r, "p2")]
  IN IF RowReason(cells, r) = "low"
       THEN IF p1v < p2v THEN "p1" ELSE IF p2v < p1v THEN "p2" ELSE "tie"
       ELSE IF p1v > p2v THEN "p1" ELSE IF p2v > p1v THEN "p2" ELSE "tie"

RowFilled(cells, r) ==
  /\ cells[RowCell(r, "p1")] # Null
  /\ cells[RowCell(r, "p2")] # Null
  /\ cells[RowCell(r, "key")] # Null

Thrown == [thrown |-> TRUE]

\* rows are visited in order 0,1,2; a row with a missing value is skipped
RECURSIVE RowResultsFrom(_, _)
RowResultsFrom(cells, r) ==
  IF r > 2 THEN << >>
  ELSE IF RowFilled(cells, r)
    THEN << [rowId |-> r, winner |-> RowWinner(cells, r),
             reason |-> RowReason(cells, r),
             p1Value |-> cells[RowCell(r, "p1")],
             p2Value |-> cells[RowCell(r, "p2")],
             keyValue |-> cells[RowCell(r, "key")],
             masterValue |-> cells[MasterCell]] >> \o RowResultsFrom(cells, r + 1)
    ELSE RowResultsFrom(cells, r + 1)

RECURSIVE CountWins(_, _)
CountWins(rows, who) ==
  IF rows = << >> THEN 0
  ELSE (IF Head(rows).winner = who THEN 1 ELSE 0) + CountWins(Tail(rows), who)

\* the overall winner taken from the lower score
calculateResultsMinority(cells) ==
  IF cells[MasterCell] = Null THEN Thrown
  ELSE LET rows == RowResultsFrom(cells, 0)
           s1 == CountWins(rows, "p1")
           s2 == CountWins(rows, "p2")
       IN [rowResults |-> rows, p1Score |-> s1, p2Score |-> s2,
           overallWinner |-> IF s2 < s1 THEN "p2" ELSE IF s1 < s2 THEN "p1" ELSE "tie"]

calculateResults(cells) ==
  IF cells[MasterCell] = Null THEN Thrown
  ELSE LET rows == RowResultsFrom(cells, 0)
           s1 == CountWins(rows, "p1")
           s2 == CountWins(rows, "p2")
       IN [rowResults |-> rows, p1Score |-> s1, p2Score |-> s2,
           overallWinner |-> IF s2 > s1 THEN "p2" ELSE IF s1 > s2 THEN "p1" ELSE "tie"]

(***************************************************************************)
(* The shared document                                                     *)
(***************************************************************************)
NoPlayer == [id |-> Null, timestamp |-> Null]      \* p2: null

EmptyDoc == [version |-> Null, lastCleanup |-> Null,
             waiting_players |-> << >>,
             active_games |-> [g \in GameIds |-> NoGame]]

HasGame(data, g) == g \in GameIds /\ data.active_games[g] # NoGame

InQueue(data, pid) == \E i \in DOMAIN data.waiting_players : data.waiting_players[i].id = pid

WithoutPlayer(q, pid) == SelectSeq(q, LAMBDA p : p.id # pid)

Other(turn) == IF turn = "p1" THEN "p2" ELSE "p1"

\* TTLs of cleanupOldData in the two builds, seconds
WaitingTTL(im) == IF im = "versioned" THEN 300 ELSE 30
GameTTL(im) == IF im = "versioned" THEN 7200 ELSE 600

\* an entry or a match whose age equals the TTL is kept
cleanupOldDataInclusive(im, data, t) ==
  [version |-> data.version,
   lastCleanup |-> IF im = "versioned" THEN t ELSE Null,
   waiting_players |-> SelectSeq(data.waiting_players, LAMBDA p : t - p.timestamp <= WaitingTTL(im)),
   active_games |-> [g \in GameIds |->
       IF data.active_games[g] # NoGame /\ t - data.active_games[g].lastUpdate <= GameTTL(im)
         THEN data.active_games[g] ELSE NoGame]]

cleanupOldData(im, data, t) ==
  [version |-> data.version,
   lastCleanup |-> IF im = "versioned" THEN t ELSE Null,
   waiting_players |-> SelectSeq(data.waiting_players, LAMBDA p : t - p.timestamp < WaitingTTL(im)),
   active_games |-> [g \in GameIds |->
       IF data.active_games[g] # NoGame /\ t - data.active_games[g].lastUpdate < GameTTL(im)
         THEN data.active_games[g] ELSE NoGame]]

\* what a successful fetchOnlineData hands to its caller
Normalize(im, doc) ==
  IF im = "versioned"
    THEN [doc EXCEPT !.version = IF doc.version = Null THEN 1 ELSE doc.version]
    ELSE [doc EXCEPT !.version = Null, !.lastCleanup = Null]

\* the body POSTed by updateOnlineData
Outgoing(im, data) ==
  IF im = "versioned" THEN [data EXCEPT !.version = data.version + 1] ELSE data

NewGame(p1, p2, t, private, key) ==
  [p1 |-> p1, p2 |-> p2, cells |-> INITIAL_CELLS, currentTurn |-> "p1",
   winner |-> "none", lastUpdate |-> t, isPrivate |-> private, privateKey |-> key]

(***************************************************************************)
(* Transforms handed to transactionalUpdate                               *)
(***************************************************************************)
PairTransform(data, oppId, gid, game) ==
  IF ~InQueue(data, oppId) THEN Abort
  ELSE [data EXCEPT !.active_games[gid] = game,
                    !.waiting_players = WithoutPlayer(@, oppId)]

EnqueueTransform(data, me, t) ==
  IF InQueue(data, me) THEN data
  ELSE [data EXCEPT !.waiting_players = Append(@, [id |-> me, timestamp |-> t])]

DequeueTransform(data, me) ==
  [data EXCEPT !.waiting_players = WithoutPlayer(@, me)]

CreateTransform(data, gid, game) == [data EXCEPT !.active_games[gid] = game]

OpenLobbies(data, key) ==
  {g \in GameIds : /\ data.active_games[g] # NoGame
                   /\ data.active_games[g].isPrivate
                   /\ data.active_games[g].privateKey = key
                   /\ data.active_games[g].p2 = NoPlayer}

\* gid: the lobby Object.keys(...).find returned, Null when none matched
JoinTransform(data, gid, me, t) ==
  IF gid = Null THEN Abort
  ELSE [data EXCEPT !.active_games[gid] =
          [@ EXCEPT !.p2 = [id |-> me, timestamp |-> t], !.lastUpdate = t]]

\* handleTurnTimeout with the turn test the wrong way round: the player on turn enforces
TimeoutTransformByMover(data, gid, me, t) ==
  IF ~HasGame(data, gid) THEN Abort
  ELSE LET game == data.active_games[gid]
           amIP1 == game.p1.id = me
           isMyTurn == (game.currentTurn = "p1" /\ amIP1) \/ (game.currentTurn = "p2" /\ ~amIP1)
       IN IF isMyTurn /\ t - game.lastUpdate >= TURN_SECONDS
            THEN [data EXCEPT !.active_games[gid] =
                    [game EXCEPT !.currentTurn = Other(game.currentTurn), !.lastUpdate = t]]
            ELSE Abort

TimeoutTransform(data, gid, me, t) ==
  IF ~HasGame(data, gid) THEN Abort
  ELSE LET game == data.active_games[gid]
           amIP1 == game.p1.id = me
           isMyTurn == (game.currentTurn = "p1" /\ amIP1) \/ (game.currentTurn = "p2" /\ ~amIP1)
       IN IF ~isMyTurn /\ t - game.lastUpdate >= TURN_SECONDS
            THEN [data EXCEPT !.active_games[gid] =
                    [game EXCEPT !.currentTurn = Other(game.currentTurn), !.lastUpdate = t]]
            ELSE Abort

\* placeMove of src/utils/online.ts without its "Ikke din tur!" check
PlaceMovePlainAnyTurn(data, gid, pid, cellId, numberVal, t) ==
  IF ~HasGame(data, gid) THEN Abort
  ELSE LET game == data.active_games[gid]
           isP1 == game.p1.id = pid
           isP2 == game.p2 # NoPlayer /\ game.p2.id = pid
           newCells == [game.cells EXCEPT ![cellId] = numberVal]
       IN IF ~isP1 /\ ~isP2 THEN Abort
          ELSE [data EXCEPT !.active_games[gid] =
                 IF FilledCount(newCells) = TOTAL_NUMBERS
                   THEN [game EXCEPT !.cells = newCells,
                                     !.winner = calculateResults(newCells).overallWinner,
                                     !.lastUpdate = t]
                   ELSE [game EXCEPT !.cells = newCells,
                                     !.currentTurn = Other(game.currentTurn),
                                     !.lastUpdate = t]]

\* placeMove of src/utils/online.ts
PlaceMovePlain(data, gid, pid, cellId, numberVal, t) ==
  IF ~HasGame(data, gid) THEN Abort
  ELSE LET game == data.active_games[gid]
           isP1 == game.p1.id = pid
           isP2 == game.p2 # NoPlayer /\ game.p2.id = pid
           isMyTurn == (game.currentTurn = "p1" /\ isP1) \/ (game.currentTurn = "p2" /\ isP2)
           newCells == [game.cells EXCEPT ![cellId] = numberVal]
       IN IF ~isP1 /\ ~isP2 THEN Abort
          ELSE IF ~isMyTurn THEN Abort
          ELSE [data EXCEPT !.active_games[gid] =
                 IF FilledCount(newCells) = TOTAL_NUMBERS
                   THEN [game EXCEPT !.cells = newCells,
                                     !.winner = calculateResults(newCells).overallWinner,
                                     !.lastUpdate = t]
                   ELSE [game EXCEPT !.cells = newCells,
                                     !.currentTurn = Other(game.currentTurn),
                                     !.lastUpdate = t]]

\* placeMove of src/unnamed/part_007 that forgets to pass the turn on
PlaceMoveVersionedKeepingTurn(data, gid, pid, cellId, numberVal, t) ==
  IF ~HasGame(data, gid) THEN Abort
  ELSE LET game == data.active_games[gid]
           amIP1 == game.p1.id = pid
           isMyTurn == (game.currentTurn = "p1" /\ amIP1) \/ (game.currentTurn = "p2" /\ ~amIP1)
           newCells == [game.cells EXCEPT ![cellId] = numberVal]
       IN IF ~isMyTurn THEN Abort
          ELSE IF game.cells[cellId] # Null THEN Abort
          ELSE [data EXCEPT !.active_games[gid] =
                 [game EXCEPT !.cells = newCells, !.lastUpdate = t]]

\* placeMove of src/unnamed/part_007
PlaceMoveVersioned(data, gid, pid, cellId, numberVal, t) ==
  IF ~HasGame(data, gid) THEN Abort
  ELSE LET game == data.active_games[gid]
           amIP1 == game.p1.id = pid
           isMyTurn == (game.currentTurn = "p1" /\ amIP1) \/ (game.currentTurn = "p2" /\ ~amIP1)
           newCells == [game.cells EXCEPT ![cellId] = numberVal]
       IN IF ~isMyTurn THEN Abort
          ELSE IF game.cells[cellId] # Null THEN Abort
          ELSE [data EXCEPT !.active_games[gid] =
                 [game EXCEPT !.cells = newCells,
                              !.currentTurn = IF FilledCount(newCells) < TOTAL_NUMBERS
                                                THEN Other(game.currentTurn) ELSE game.currentTurn,
                              !.lastUpdate = t]]

\* the move written together with an emptied waiting queue
PlaceMoveTransformEmptiesQueue(im, data, gid, pid, cellId, numberVal, t) ==
  LET new == IF im = "versioned" THEN PlaceMoveVersioned(data, gid, pid, cellId, numberVal, t)
             ELSE PlaceMovePlain(data, gid, pid, cellId, numberVal, t)
  IN IF new = Abort THEN Abort ELSE [new EXCEPT !.waiting_players = << >>]

PlaceMoveTransform(im, data, gid, pid, cellId, numberVal, t) ==
  IF im = "versioned" THEN PlaceMoveVersioned(data, gid, pid, cellId, numberVal, t)
  ELSE PlaceMovePlain(data, gid, pid, cellId, numberVal, t)

(***************************************************************************)
(* State                                                                   *)
(***************************************************************************)
VARIABLES
  scenario,  \* which initial situation and budgets the run has (never changes)
  impl,      \* build of utils/online in the bundle: "lww" (src/utils/online.ts) or "versioned" (part_007)
  store,     \* the document held by npoint
  seq,       \* number of POST bodies the store has accepted so far
  now,       \* Date.now(), seconds
  nextGame,  \* next unused game id
  txCount,   \* user-started store operations so far
  failures,  \* failed HTTP exchanges so far
  app,       \* per client: the React state of App
  tx,        \* per client and slot: the store operation in flight
  board,     \* the cells of a pass-and-play game on one device
  edits,     \* changes made to that board so far
  result,    \* what calculateResults gave for that board, NotCalled before it ran
  polled     \* per client: the document a polling callback has fetched and not yet applied

vars == <<scenario, impl, store, seq, now, nextGame, txCount, failures, app, tx,
          board, edits, result, polled>>

NotCalled == [called |-> FALSE]

NoPoll == [pending |-> FALSE]

\* no pass-and-play game on the device, no polling callback in flight
NoLocalGame ==
  /\ board = INITIAL_CELLS
  /\ edits = 0
  /\ result = NotCalled
  /\ polled = [c \in Clients |-> NoPoll]

\* "fg": the operation the user started; "bg": fire-and-forget calls (timeout, leaving the queue)
Slots == {"fg", "bg"}
Procs == Clients \X Slots

IdleTx == [pc |-> "idle", kind |-> "none", gid |-> Null, opp |-> NoPlayer, game |-> NoGame,
           key |-> Null, cell |-> 0, num |-> Null, attempt |-> 0, conflictAttempt |-> 0,
           data |-> EmptyDoc, baseSeq |-> 0, joined |-> Null, landed |-> 0]

StartTx(kind) == [IdleTx EXCEPT !.pc = "fetch", !.kind = kind]

InitApp == [status |-> "online_setup", mode |-> "pvp", activeGameId |-> Null, isHost |-> FALSE,
            privateLobbyKey |-> Null, cells |-> INITIAL_CELLS, currentPlayer |-> "p1",
            waitPoll |-> FALSE, lastOutcome |-> "none"]

isSubmitting(c) == tx[<<c, "fg">>].kind = "move"

(***************************************************************************)
(* Continuations of the handlers once transactionalUpdate has resolved    *)
(***************************************************************************)
finishGame(a, finalCells) ==
  IF calculateResults(finalCells) = Thrown THEN a
  ELSE [a EXCEPT !.status = "finished", !.activeGameId = Null]

startBotMatch(a) ==
  [a EXCEPT !.mode = "online_bot", !.cells = INITIAL_CELLS, !.currentPlayer = "p1",
            !.status = "playing"]

MoveAccepted(a, gameData) ==
  LET a1 == [a EXCEPT !.cells = gameData.cells, !.currentPlayer = gameData.currentTurn]
  IN IF gameData.winner # "none" THEN finishGame(a1, gameData.cells) ELSE a1

\* state of App after the awaited transactionalUpdate returned ok (TRUE/FALSE)
AppAfter(a0, t, ok, outcome) ==
  LET a == [a0 EXCEPT !.lastOutcome = outcome]
  IN CASE t.kind = "pair" ->
            IF ok THEN [a EXCEPT !.activeGameId = t.gid, !.isHost = FALSE, !.mode = "online",
                                 !.cells = t.game.cells, !.currentPlayer = "p1",
                                 !.status = "playing"]
                  ELSE startBotMatch(a)
       [] t.kind = "enqueue" -> [a EXCEPT !.status = "matchmaking", !.waitPoll = TRUE]
       [] t.kind = "create" ->
            IF ok THEN [a EXCEPT !.activeGameId = t.gid, !.isHost = TRUE,
                                 !.privateLobbyKey = t.key, !.status = "matchmaking"]
                  ELSE a
       [] t.kind = "join" ->
            IF ok /\ t.joined # Null
              THEN [a EXCEPT !.activeGameId = t.joined, !.isHost = FALSE, !.mode = "online",
                             !.cells = t.data.active_games[t.joined].cells,
                             !.currentPlayer = "p1", !.status = "playing"]
              ELSE a
       [] OTHER -> a

\* transactionalUpdate resolved for process p; a move continues with its own fetches
Resolve(p, t, ok, outcome) ==
  LET c == p[1]
      bg == <<c, "bg">>
  IN IF p[2] = "bg"
       THEN /\ tx' = [tx EXCEPT ![p] = IdleTx]
            /\ app' = app
     ELSE IF t.kind = "move"
       THEN IF ok /\ impl = "lww"
              THEN /\ app' = [app EXCEPT ![c] =
                        MoveAccepted([@ EXCEPT !.lastOutcome = outcome],
                                     t.data.active_games[t.gid])]
                   /\ tx' = [tx EXCEPT ![p] = IdleTx]
              ELSE /\ app' = [app EXCEPT ![c].lastOutcome = outcome]
                   /\ tx' = [tx EXCEPT ![p] = [t EXCEPT !.pc = IF ok THEN "movefetch" ELSE "resync"]]
     ELSE /\ app' = [app EXCEPT ![c] = AppAfter(@, t, ok, outcome)]
          /\ tx' = [tx EXCEPT ![p] = IdleTx,
                              ![bg] = IF t.kind = "pair" /\ ~ok /\ tx[bg].pc = "idle"
                                        THEN StartTx("dequeue") ELSE @]

(***************************************************************************)
(* transactionalUpdate / updateOnlineData, one action per HTTP exchange   *)
(***************************************************************************)
Transformed(t, c, data, g) ==
  CASE t.kind = "pair" -> PairTransform(data, t.opp.id, t.gid, t.game)
    [] t.kind = "enqueue" -> EnqueueTransform(data, c, now)
    [] t.kind = "dequeue" -> DequeueTransform(data, c)
    [] t.kind = "create" -> CreateTransform(data, t.gid, t.game)
    [] t.kind = "join" -> JoinTransform(data, g, c, now)
    [] t.kind = "timeout" -> TimeoutTransform(data, t.gid, c, now)
    [] t.kind = "move" -> PlaceMoveTransform(impl, data, t.gid, c, t.cell, t.num, now)

\* results Object.keys(data.active_games).find can give for a join
JoinChoices(t, data) ==
  IF t.kind = "join" /\ OpenLobbies(data, t.key) # {} THEN OpenLobbies(data, t.key) ELSE {Null}

\* the loop of part_007's transactionalUpdate moves on to its next attempt
NextAttempt(p, t) ==
  IF t.attempt + 1 >= MAX_TX_RETRIES
    THEN Resolve(p, t, FALSE, "failed")
    ELSE /\ tx' = [tx EXCEPT ![p] = [t EXCEPT !.pc = "fetch", !.attempt = @ + 1]]
         /\ app' = app

\* step 1 and 2: fetch the document and apply the transform to it
TxFetchOk(p) ==
  LET t == tx[p]
      c == p[1]
      data == Normalize(impl, store)
  IN /\ t.pc = "fetch"
     /\ \E g \in JoinChoices(t, data) :
        \E thisBound \in (IF t.kind = "join" /\ g # Null THEN BOOLEAN ELSE {TRUE}) :
          IF ~thisBound
            THEN \* (this as any).joinedGameId = ... with this undefined: TypeError leaves the handler
                 /\ tx' = [tx EXCEPT ![p] = IdleTx]
                 /\ app' = [app EXCEPT ![c].lastOutcome = "thrown"]
            ELSE LET new == Transformed(t, c, data, g)
                 IN IF new = Abort
                      THEN Resolve(p, t, FALSE, "aborted")
                      ELSE /\ tx' = [tx EXCEPT ![p] = [t EXCEPT !.pc = "post", !.data = new,
                                                                !.baseSeq = seq, !.joined = g,
                                                                !.conflictAttempt = 0]]
                           /\ app' = app
     /\ UNCHANGED <<polled, board, edits, result, scenario, impl, store, seq, now, nextGame, txCount, failures>>

TxFetchFail(p) ==
  LET t == tx[p]
  IN /\ t.pc = "fetch"
     /\ failures < FailureBudget(scenario)
     /\ failures' = failures + 1
     /\ IF impl = "versioned" THEN NextAttempt(p, t) ELSE Resolve(p, t, FALSE, "failed")
     /\ UNCHANGED <<polled, board, edits, result, scenario, impl, store, seq, now, nextGame, txCount>>

\* step 3: POST the whole document; the store takes whatever body arrives
TxPostOk(p) ==
  LET t == tx[p]
  IN /\ t.pc = "post"
     /\ store' = Outgoing(impl, t.data)
     /\ seq' = seq + 1
     /\ Resolve(p, [t EXCEPT !.landed = @ + 1], TRUE, "committed")
     /\ UNCHANGED <<polled, board, edits, result, scenario, impl, now, nextGame, txCount, failures>>

\* the exchange fails; the body may or may not have reached the store
TxPostFail(p) ==
  LET t == tx[p]
  IN /\ t.pc = "post"
     /\ failures < FailureBudget(scenario)
     /\ failures' = failures + 1
     /\ \E arrived \in BOOLEAN :
          /\ store' = IF arrived THEN Outgoing(impl, t.data) ELSE store
          /\ seq' = IF arrived THEN seq + 1 ELSE seq
          /\ LET t1 == [t EXCEPT !.landed = IF arrived THEN @ + 1 ELSE @]
             IN IF impl = "versioned"
                  THEN /\ tx' = [tx EXCEPT ![p] = [t1 EXCEPT !.pc = "refetch"]]
                       /\ app' = app
                  ELSE Resolve(p, t1, FALSE, "failed")
     /\ UNCHANGED <<polled, board, edits, result, scenario, impl, now, nextGame, txCount>>

\* step 4 posting its copy again although the version has moved on
TxRefetchOkRepost(p) ==
  LET t == tx[p]
      latestData == Normalize(impl, store)
  IN /\ t.pc = "refetch"
     /\ IF t.conflictAttempt = MAX_CONFLICT_RETRIES - 1 THEN NextAttempt(p, t)
        ELSE /\ tx' = [tx EXCEPT ![p] = [t EXCEPT !.pc = "post", !.conflictAttempt = @ + 1]]
             /\ app' = app
     /\ UNCHANGED <<polled, board, edits, result, scenario, impl, store, seq, now, nextGame, txCount, failures>>

\* step 4 (part_007 only): after a failed POST, fetch again and compare versions
TxRefetchOk(p) ==
  LET t == tx[p]
      latestData == Normalize(impl, store)
  IN /\ t.pc = "refetch"
     /\ IF latestData.version > t.data.version THEN NextAttempt(p, t)
        ELSE IF t.conflictAttempt = MAX_CONFLICT_RETRIES - 1 THEN NextAttempt(p, t)
        ELSE /\ tx' = [tx EXCEPT ![p] = [t EXCEPT !.pc = "post", !.conflictAttempt = @ + 1]]
             /\ app' = app
     /\ UNCHANGED <<polled, board, edits, result, scenario, impl, store, seq, now, nextGame, txCount, failures>>

TxRefetchFail(p) ==
  LET t == tx[p]
  IN /\ t.pc = "refetch"
     /\ failures < FailureBudget(scenario)
     /\ failures' = failures + 1
     /\ NextAttempt(p, t)
     /\ UNCHANGED <<polled, board, edits, result, scenario, impl, store, seq, now, nextGame, txCount>>

(***************************************************************************)
(* placeMove / handlePlaceNumber after the transaction                    *)
(***************************************************************************)
\* part_007 placeMove: fetch the updated game once the transaction returned true
MoveFetch(c) ==
  LET p == <<c, "fg">>
      t == tx[p]
      data == Normalize(impl, store)
  IN /\ t.pc = "movefetch"
     /\ \/ /\ HasGame(data, t.gid)
           /\ app' = [app EXCEPT ![c] = MoveAccepted(@, data.active_games[t.gid])]
           /\ tx' = [tx EXCEPT ![p] = IdleTx]
           /\ UNCHANGED failures
        \/ /\ ~HasGame(data, t.gid)
           /\ app' = [app EXCEPT ![c].lastOutcome = "failed"]
           /\ tx' = [tx EXCEPT ![p] = [t EXCEPT !.pc = "resync"]]
           /\ UNCHANGED failures
        \/ /\ failures < FailureBudget(scenario)
           /\ failures' = failures + 1
           /\ app' = [app EXCEPT ![c].lastOutcome = "failed"]
           /\ tx' = [tx EXCEPT ![p] = [t EXCEPT !.pc = "resync"]]
     /\ UNCHANGED <<polled, board, edits, result, scenario, impl, store, seq, now, nextGame, txCount>>

\* handlePlaceNumber, failure branch: "Sync with server on failure", then isSubmitting := false
MoveResync(c) ==
  LET p == <<c, "fg">>
      t == tx[p]
      data == Normalize(impl, store)
  IN /\ t.pc = "resync"
     /\ tx' = [tx EXCEPT ![p] = IdleTx]
     /\ \/ /\ app' = IF HasGame(data, t.gid)
                       THEN [app EXCEPT ![c].cells = data.active_games[t.gid].cells,
                                        ![c].currentPlayer = data.active_games[t.gid].currentTurn]
                       ELSE app
           /\ UNCHANGED failures
        \/ /\ failures < FailureBudget(scenario)
           /\ failures' = failures + 1
           /\ app' = app
     /\ UNCHANGED <<polled, board, edits, result, scenario, impl, store, seq, now, nextGame, txCount>>

(***************************************************************************)
(* Handlers of App.tsx (transactional version)                             *)
(***************************************************************************)
\* waiting.find(p => p.id !== onlineId) on the cleaned copy; NoPlayer when none
FirstOpponent(q, me) ==
  LET others == SelectSeq(q, LAMBDA e : e.id # me)
  IN IF others = << >> THEN NoPlayer ELSE Head(others)

\* handleFindMatch up to the start of its transaction: fetch, clean a copy, pick an opponent
FindMatch(c) ==
  LET p == <<c, "fg">>
      data == Normalize(impl, store)
      cleanData == cleanupOldData(impl, data, now)
      opponent == FirstOpponent(cleanData.waiting_players, c)
  IN /\ app[c].status = "online_setup"
     /\ tx[p].pc = "idle"
     /\ txCount < TxBudget(scenario)
     /\ txCount' = txCount + 1
     /\ IF opponent # NoPlayer
          THEN /\ nextGame <= MaxGames
               /\ nextGame' = nextGame + 1
               /\ tx' = [tx EXCEPT ![p] =
                    [StartTx("pair") EXCEPT
                       !.gid = nextGame, !.opp = opponent,
                       !.game = NewGame(opponent, [id |-> c, timestamp |-> now], now, FALSE, Null)]]
          ELSE /\ nextGame' = nextGame
               /\ tx' = [tx EXCEPT ![p] = StartTx("enqueue")]
     /\ app' = [app EXCEPT ![c].privateLobbyKey = Null, ![c].lastOutcome = "none"]
     /\ UNCHANGED <<polled, board, edits, result, scenario, impl, store, seq, now, failures>>

\* games of the fetched document the matchmaking poll takes for its own
MyPublicGames(data, c) ==
  {g \in GameIds : /\ data.active_games[g] # NoGame
                   /\ (data.active_games[g].p1.id = c \/ data.active_games[g].p2.id = c)
                   /\ ~data.active_games[g].isPrivate}

\* the waitInterval callback of handleFindMatch when it finds a game
WaitPoll(c) ==
  LET data == Normalize(impl, store)
  IN /\ app[c].waitPoll
     /\ \E g \in MyPublicGames(data, c) :
          app' = [app EXCEPT ![c] =
                    [@ EXCEPT !.waitPoll = FALSE, !.activeGameId = g,
                              !.isHost = (data.active_games[g].p1.id = c),
                              !.mode = "online", !.cells = data.active_games[g].cells,
                              !.currentPlayer = "p1", !.status = "playing"]]
     /\ UNCHANGED <<polled, board, edits, result, scenario, impl, store, seq, now, nextGame, txCount, failures, tx>>

\* handlePrivateAction('create', key)
CreateLobby(c, key) ==
  LET p == <<c, "fg">>
  IN /\ app[c].status = "online_setup"
     /\ tx[p].pc = "idle"
     /\ txCount < TxBudget(scenario)
     /\ nextGame <= MaxGames
     /\ txCount' = txCount + 1
     /\ nextGame' = nextGame + 1
     /\ tx' = [tx EXCEPT ![p] =
          [StartTx("create") EXCEPT
             !.gid = nextGame, !.key = key,
             !.game = NewGame([id |-> c, timestamp |-> now], NoPlayer, now, TRUE, key)]]
     /\ app' = [app EXCEPT ![c].lastOutcome = "none"]
     /\ UNCHANGED <<polled, board, edits, result, scenario, impl, store, seq, now, failures>>

\* handlePrivateAction('join', key)
JoinLobby(c, key) ==
  LET p == <<c, "fg">>
  IN /\ app[c].status = "online_setup"
     /\ tx[p].pc = "idle"
     /\ txCount < TxBudget(scenario)
     /\ txCount' = txCount + 1
     /\ tx' = [tx EXCEPT ![p] = [StartTx("join") EXCEPT !.key = key]]
     /\ app' = [app EXCEPT ![c].lastOutcome = "none"]
     /\ UNCHANGED <<polled, board, edits, result, scenario, impl, store, seq, now, nextGame, failures>>

\* handlePlaceNumber in online mode. The number picker may have been opened long before
\* the number is chosen, so neither the local turn nor the local board restricts the call.
SubmitMove(c, cellId, numberVal) ==
  LET p == <<c, "fg">>
  IN /\ app[c].status = "playing"
     /\ app[c].mode = "online"
     /\ app[c].activeGameId # Null
     /\ tx[p].pc = "idle"
     /\ txCount < TxBudget(scenario)
     /\ txCount' = txCount + 1
     /\ tx' = [tx EXCEPT ![p] =
          [StartTx("move") EXCEPT !.gid = app[c].activeGameId, !.cell = cellId, !.num = numberVal]]
     /\ app' = [app EXCEPT ![c].lastOutcome = "none"]
     /\ UNCHANGED <<polled, board, edits, result, scenario, impl, store, seq, now, nextGame, failures>>

\* the 1 s polling effect: one callback that found the active game in the fetched document
PollGame(c) ==
  LET a == app[c]
      data == Normalize(impl, store)
      game == data.active_games[a.activeGameId]
      amIP1 == game.p1.id = c
      myTurn == (game.currentTurn = "p1" /\ amIP1) \/ (game.currentTurn = "p2" /\ ~amIP1)
      synced == [a EXCEPT !.cells = game.cells, !.currentPlayer = game.currentTurn]
      bg == <<c, "bg">>
  IN /\ a.activeGameId # Null
     /\ a.mode = "online" \/ (a.status = "matchmaking" /\ a.privateLobbyKey # Null)
     /\ ~isSubmitting(c)
     /\ HasGame(data, a.activeGameId)
     /\ IF a.status = "matchmaking" /\ game.p2 # NoPlayer /\ a.privateLobbyKey # Null
          THEN /\ app' = [app EXCEPT ![c] = [a EXCEPT !.mode = "online", !.status = "playing"]]
               /\ tx' = tx
          ELSE /\ a.status = "playing"
               /\ app' = [app EXCEPT ![c] =
                    IF game.winner # "none" THEN finishGame(synced, game.cells) ELSE synced]
               /\ tx' = IF /\ now - game.lastUpdate >= TURN_SECONDS
                           /\ ~myTurn
                           /\ game.winner = "none"
                           /\ a.mode = "online"
                           /\ tx[bg].pc = "idle"
                          THEN [tx EXCEPT ![bg] = [StartTx("timeout") EXCEPT !.gid = a.activeGameId]]
                          ELSE tx
     /\ <<app', tx'>> # <<app, tx>>
     /\ UNCHANGED <<polled, board, edits, result, scenario, impl, store, seq, now, nextGame, txCount, failures>>

Tick ==
  /\ now + TURN_SECONDS <= Horizon(scenario)
  /\ now' = now + TURN_SECONDS
  /\ UNCHANGED <<polled, board, edits, result, scenario, impl, store, seq, nextGame, txCount, failures, app, tx>>

(***************************************************************************)
(* Initial states: a fresh document, an open private lobby, a public      *)
(* match two moves from its end.                                           *)
(***************************************************************************)
LateBoard == [i \in CellIds |->
  CASE i = 0 -> Null [] i = 1 -> 7 [] i = 2 -> 4
    [] i = 3 -> 1 [] i = 4 -> 8 [] i = 5 -> 2
    [] i = 6 -> 10 [] i = 7 -> 9 [] i = 8 -> 3
    [] i = 9 -> Null]

Versions(im, v) == IF im = "versioned" THEN v ELSE Null

FreshInit ==
  /\ scenario = "fresh"
  /\ store = EmptyDoc
  /\ app = [c \in Clients |-> InitApp]
  /\ nextGame = 1

LobbyInit ==
  /\ scenario = "lobby"
  /\ store = [EmptyDoc EXCEPT
        !.version = Versions(impl, 2),
        !.active_games[1] = NewGame([id |-> 1, timestamp |-> 0], NoPlayer, 0, TRUE, 1)]
  /\ app = [c \in Clients |->
        IF c = 1 THEN [InitApp EXCEPT !.status = "matchmaking", !.activeGameId = 1,
                                      !.isHost = TRUE, !.privateLobbyKey = 1,
                                      !.lastOutcome = "committed"]
        ELSE InitApp]
  /\ nextGame = 2

\* a public match between clients 1 (p1, on turn) and 2 (p2), two moves from its end
MatchInPlay ==
  /\ store = [EmptyDoc EXCEPT
        !.version = Versions(impl, 11),
        !.active_games[1] =
           [NewGame([id |-> 1, timestamp |-> 0], [id |-> 2, timestamp |-> 0], 0, FALSE, Null)
              EXCEPT !.cells = LateBoard]]
  /\ app = [c \in Clients |->
        IF c \in {1, 2}
          THEN [InitApp EXCEPT !.status = "playing", !.mode = "online", !.activeGameId = 1,
                               !.isHost = (c = 1), !.cells = LateBoard]
          ELSE InitApp]
  /\ nextGame = 2

LateInit ==
  /\ scenario \in {"late", "flaky", "slow"}
  /\ MatchInPlay

Init ==
  /\ impl \in {"lww", "versioned"}
  /\ seq = 0
  /\ now = 0
  /\ txCount = 0
  /\ failures = 0
  /\ tx = [p \in Procs |-> IdleTx]
  /\ FreshInit \/ LobbyInit \/ LateInit
  /\ NoLocalGame

Next ==
  \/ \E c \in Clients : FindMatch(c)
  \/ \E c \in Clients : WaitPoll(c)
  \/ \E c \in Clients, key \in LobbyKeys : CreateLobby(c, key)
  \/ \E c \in Clients, key \in LobbyKeys : JoinLobby(c, key)
  \/ \E c \in Clients, cellId \in MoveCells, numberVal \in MoveNums : SubmitMove(c, cellId, numberVal)
  \/ \E c \in Clients : PollGame(c)
  \/ \E p \in Procs : TxFetchOk(p)
  \/ \E p \in Procs : TxFetchFail(p)
  \/ \E p \in Procs : TxPostOk(p)
  \/ \E p \in Procs : TxPostFail(p)
  \/ \E p \in Procs : TxRefetchOk(p)
  \/ \E p \in Procs : TxRefetchFail(p)
  \/ \E c \in Clients : MoveFetch(c)
  \/ \E c \in Clients : MoveResync(c)
  \/ Tick

Spec == Init /\ [][Next]_vars

(***************************************************************************)
(* A match in play with a reachable store, watched over two turn budgets: *)
(* the players poll, submit moves and let the clock run.                  *)
(***************************************************************************)
MatchInit ==
  /\ scenario = "stalled"
  /\ impl \in {"lww", "versioned"}
  /\ seq = 0
  /\ now = 0
  /\ txCount = 0
  /\ failures = 0
  /\ tx = [p \in Procs |-> IdleTx]
  /\ MatchInPlay
  /\ NoLocalGame

MatchNext ==
  \/ \E c \in Clients, cellId \in MoveCells, numberVal \in MoveNums : SubmitMove(c, cellId, numberVal)
  \/ \E c \in Clients : PollGame(c)
  \/ \E p \in Procs : TxFetchOk(p)
  \/ \E p \in Procs : TxPostOk(p)
  \/ \E c \in Clients : MoveFetch(c)
  \/ \E c \in Clients : MoveResync(c)
  \/ Tick

MatchSpec == MatchInit /\ [][MatchNext]_vars

(***************************************************************************)
(* The same match after the player on turn (client 1) has crashed: only   *)
(* the other clients act. Polling is a setInterval callback, HTTP         *)
(* exchanges with a reachable store complete, the clock runs: these are   *)
(* weakly fair. Submitting a move is up to the user and is not.           *)
(***************************************************************************)
Alive == Clients \ {1}

CrashInit ==
  /\ scenario = "crashed"
  /\ impl \in {"lww", "versioned"}
  /\ seq = 0
  /\ now = 0
  /\ txCount = 0
  /\ failures = 0
  /\ tx = [p \in Procs |-> IdleTx]
  /\ MatchInPlay
  /\ NoLocalGame

CrashNext ==
  \/ \E c \in Alive, cellId \in MoveCells, numberVal \in MoveNums : SubmitMove(c, cellId, numberVal)
  \/ \E c \in Alive : PollGame(c)
  \/ \E p \in Alive \X Slots : TxFetchOk(p)
  \/ \E p \in Alive \X Slots : TxPostOk(p)
  \/ \E c \in Alive : MoveFetch(c)
  \/ \E c \in Alive : MoveResync(c)
  \/ Tick

CrashFair ==
  /\ WF_vars(Tick)
  /\ \A c \in Alive : WF_vars(PollGame(c)) /\ WF_vars(MoveFetch(c)) /\ WF_vars(MoveResync(c))
  /\ \A p \in Alive \X Slots : WF_vars(TxFetchOk(p)) /\ WF_vars(TxPostOk(p))

CrashSpec == CrashInit /\ [][CrashNext]_vars /\ CrashFair

(***************************************************************************)
(* Vocabulary of the properties                                            *)
(***************************************************************************)
Fg(c) == <<c, "fg">>

\* process p completes a successful fetch (and applies its transform) in this step
FetchedBy(p) == tx[p].pc = "fetch" /\ tx'[p] # tx[p] /\ failures' = failures

\* process p finishes a POST in this step / the store accepts a body in this step
PostedBy(p) == tx[p].pc = "post" /\ tx'[p] # tx[p]
Accepted == seq' = seq + 1
\* the POST of p is answered with response.ok in this step
ReportedOk(p) == PostedBy(p) /\ failures' = failures

Participant(game, c) == game.p1.id = c \/ game.p2.id = c
SideOf(game, c) == IF game.p1.id = c THEN "p1" ELSE "p2"

\* the game a move of c finds in the document it fetches in this step
FetchedGame(c) == Normalize(impl, store).active_games[tx[Fg(c)].gid]
MoveFetchedBy(c) ==
  /\ tx[Fg(c)].kind = "move"
  /\ FetchedBy(Fg(c))
  /\ HasGame(store, tx[Fg(c)].gid)

\* the move of c is refused in this step: nothing is written, handlePlaceNumber takes its
\* failure branch
MoveAborted(c) ==
  /\ tx'[Fg(c)].pc = "resync"
  /\ app'[c].lastOutcome = "aborted"
  /\ store' = store

(***************************************************************************)
(* C1: no lost update. Every body the store accepts was computed from the *)
(* document the store holds at that moment (no accepted write since the   *)
(* writer's fetch), stated for the build with the version field.          *)
(***************************************************************************)
C1_NoLostUpdate ==
  [][\A p \in Procs :
       (impl = "versioned" /\ PostedBy(p) /\ Accepted) => tx[p].baseSeq = seq]_vars

(***************************************************************************)
(* C2: the stored version strictly increases with every accepted write    *)
(* (build with the version field).                                         *)
(***************************************************************************)
C2_VersionStrictlyIncreases ==
  [][(impl = "versioned" /\ Accepted) => store'.version > store.version]_vars

(***************************************************************************)
(* C3: a write whose base version is lower than the store's current       *)
(* version is rejected and leaves the stored document unchanged.          *)
(***************************************************************************)
C3_StaleWriteRejected ==
  [][\A p \in Procs :
       (impl = "versioned" /\ PostedBy(p) /\ tx[p].data.version < store.version)
         => (store' = store /\ ~ReportedOk(p))]_vars

(***************************************************************************)
(* C4: of two pairing transactions racing for one waiting entry only one  *)
(* reports success: a pairing whose entry has already left the stored     *)
(* queue for a stored match when its write goes out does not make its     *)
(* client enter a match.                                                   *)
(***************************************************************************)
C4_OnePairingSucceeds ==
  [][\A c \in Clients :
       (/\ tx[Fg(c)].kind = "pair"
        /\ PostedBy(Fg(c))
        /\ ~InQueue(store, tx[Fg(c)].opp.id)
        /\ \E g \in GameIds : HasGame(store, g) /\ Participant(store.active_games[g], tx[Fg(c)].opp.id))
         => app'[c].mode # "online"]_vars

(***************************************************************************)
(* C5: of two joins racing for one lobby at most one becomes playerB:     *)
(* once p2 of a stored match is set, no later write puts another joiner   *)
(* in its place.                                                           *)
(***************************************************************************)
C5_PlayerBNeverReplaced ==
  [][\A g \in GameIds :
       (/\ HasGame(store, g) /\ HasGame(store', g)
        /\ store.active_games[g].p2 # NoPlayer
        /\ store'.active_games[g].p2 # NoPlayer)
         => store'.active_games[g].p2 = store.active_games[g].p2]_vars

(***************************************************************************)
(* C6: a move submitted by a participant while the fetched match's turn   *)
(* belongs to the other player aborts (whatever the client's local turn   *)
(* says): failure is reported and the transaction writes nothing, neither *)
(* in that step nor in the re-sync that follows.                           *)
(***************************************************************************)
C6_WrongTurnAborts ==
  [][\A c \in Clients :
       /\ (/\ MoveFetchedBy(c)
           /\ Participant(FetchedGame(c), c)
           /\ FetchedGame(c).currentTurn # SideOf(FetchedGame(c), c))
            => MoveAborted(c)
       /\ (tx[Fg(c)].pc = "resync" /\ tx'[Fg(c)] # tx[Fg(c)]) => store' = store]_vars

\* a participant whose local turn is its own was refused because the stored turn is not
C6_Witness ==
  \E c \in Clients :
    /\ tx[Fg(c)].kind = "move" /\ tx[Fg(c)].pc = "resync"
    /\ app[c].lastOutcome = "aborted"
    /\ HasGame(store, tx[Fg(c)].gid)
    /\ LET game == store.active_games[tx[Fg(c)].gid]
       IN /\ Participant(game, c)
          /\ game.currentTurn # SideOf(game, c)
          /\ app[c].currentPlayer = SideOf(game, c)
          /\ game.cells[tx[Fg(c)].cell] = Null

(***************************************************************************)
(* C7: a move submitted by a caller who is neither p1 nor p2 of the       *)
(* fetched match aborts and writes nothing, whoever is on turn.           *)
(***************************************************************************)
C7_NonParticipantAborts ==
  [][\A c \in Clients :
       (MoveFetchedBy(c) /\ ~Participant(FetchedGame(c), c)) => MoveAborted(c)]_vars

(***************************************************************************)
(* C8: a move that targets a cell which already holds a value aborts and  *)
(* leaves the stored match unchanged.                                      *)
(***************************************************************************)
C8_OccupiedCellAborts ==
  [][\A c \in Clients :
       (MoveFetchedBy(c) /\ FetchedGame(c).cells[tx[Fg(c)].cell] # Null) => MoveAborted(c)]_vars

(***************************************************************************)
(* C9: a move whose transform goes through and leaves the board           *)
(* incomplete changes the fetched record in exactly this way: target cell *)
(* = submitted number, turn = other player, lastUpdate = now, winner      *)
(* still none; and the record the store holds after the commit is that    *)
(* record.                                                                 *)
(***************************************************************************)
C9_IncompleteMoveRecord ==
  [][\A c \in Clients :
       LET t == tx[Fg(c)]
           new == tx'[Fg(c)].data.active_games[t.gid]
       IN /\ (MoveFetchedBy(c) /\ tx'[Fg(c)].pc = "post" /\ FilledCount(new.cells) < TOTAL_NUMBERS)
               => /\ new = [FetchedGame(c) EXCEPT !.cells[t.cell] = t.num,
                                                  !.currentTurn = Other(@),
                                                  !.lastUpdate = now]
                  /\ new.winner = "none"
          /\ (t.kind = "move" /\ ReportedOk(Fg(c)))
               => store'.active_games[t.gid] = t.data.active_games[t.gid]]_vars

\* the end-to-end example: p1's 5 in cell 0 of a fresh match is committed
C9_Witness ==
  \E c \in Clients, g \in GameIds :
    /\ app[c].lastOutcome = "committed" /\ app[c].activeGameId = g
    /\ HasGame(store, g)
    /\ store.active_games[g].p1.id = c
    /\ store.active_games[g].cells = [INITIAL_CELLS EXCEPT ![0] = 5]
    /\ store.active_games[g].currentTurn = "p2"
    /\ store.active_games[g].winner = "none"
    /\ store.active_games[g].lastUpdate = now

(***************************************************************************)
(* C10: a stored match whose ten cells are filled has its winner set      *)
(* (the write that fills the tenth cell records the winner).              *)
(***************************************************************************)
C10_CompleteBoardHasWinner ==
  \A g \in GameIds :
    (HasGame(store, g) /\ FilledCount(store.active_games[g].cells) = TOTAL_NUMBERS)
      => store.active_games[g].winner # "none"

(***************************************************************************)
(* C11: on every stored match no number sits in more than one cell and    *)
(* every placed value lies in 1..10, whatever numbers the clients send.   *)
(***************************************************************************)
C11_NoRepeatedNumber ==
  \A g \in GameIds :
    HasGame(store, g) =>
      LET cells == store.active_games[g].cells
      IN /\ \A i \in CellIds : cells[i] # Null => cells[i] \in 1..TOTAL_NUMBERS
         /\ \A i, j \in CellIds : (i # j /\ cells[i] # Null) => cells[i] # cells[j]

\* the transform of p returns null on the document p fetches in this step
AbortsOn(p) ==
  /\ tx[p].pc = "fetch"
  /\ FetchedBy(p)
  /\ \A g \in JoinChoices(tx[p], Normalize(impl, store)) :
       Transformed(tx[p], p[1], Normalize(impl, store), g) = Abort

(***************************************************************************)
(* C12: when the transform signals abort the transaction stops at once:   *)
(* no write, no further attempt, the caller is told it did not commit,    *)
(* and the transaction has put nothing into the store since it started.   *)
(***************************************************************************)
C12_AbortWritesNothing ==
  [][\A p \in Procs :
       AbortsOn(p) =>
         /\ store' = store /\ seq' = seq
         /\ tx'[p].pc \in {"idle", "resync"}
         /\ p[2] = "fg" => app'[p[1]].lastOutcome = "aborted"
         /\ tx[p].landed = 0]_vars

\* an HTTP exchange of transaction p fails in this step
ExchangeFailed(p) ==
  /\ tx[p].pc \in {"fetch", "post", "refetch"}
  /\ tx'[p] # tx[p]
  /\ failures' = failures + 1

(***************************************************************************)
(* C13: a transaction makes at most MAX_TX_RETRIES (5) attempts; a failed *)
(* fetch or write uses up an attempt and is retried while attempts are    *)
(* left, and the transaction reports failure once they are used up.       *)
(***************************************************************************)
C13_BoundedRetry ==
  [][\A p \in Procs :
       /\ tx[p].attempt < MAX_TX_RETRIES
       /\ (ExchangeFailed(p) /\ tx[p].attempt + 1 < MAX_TX_RETRIES)
            => tx'[p].pc \in {"fetch", "post", "refetch"}
       /\ (ExchangeFailed(p) /\ tx'[p].pc \notin {"fetch", "post", "refetch"} /\ p[2] = "fg")
            => app'[p[1]].lastOutcome = "failed"]_vars

Bg(c) == <<c, "bg">>

\* the timeout transaction of c completes its fetch in this step and finds its match
TimeoutFetchedBy(c) ==
  /\ tx[Bg(c)].kind = "timeout"
  /\ FetchedBy(Bg(c))
  /\ HasGame(store, tx[Bg(c)].gid)

TimeoutGame(c) == Normalize(impl, store).active_games[tx[Bg(c)].gid]

(***************************************************************************)
(* C14: turn-timeout forfeiture. A timeout transaction of the waiting     *)
(* player that finds the player on turn idle for FORFEIT_SKIPS (2) turn   *)
(* budgets or more writes winner = the waiting player; a timeout          *)
(* transaction that finds the winner already set changes nothing.         *)
(***************************************************************************)
C14_TimeoutForfeits ==
  [][\A c \in Clients :
       LET game == TimeoutGame(c)
           new == tx'[Bg(c)].data.active_games[tx[Bg(c)].gid]
       IN /\ (/\ TimeoutFetchedBy(c)
               /\ Participant(game, c)
               /\ game.currentTurn # SideOf(game, c)
               /\ game.winner = "none"
               /\ now - game.lastUpdate >= FORFEIT_SKIPS * TURN_SECONDS)
                => (tx'[Bg(c)].pc = "post" /\ new.winner = SideOf(game, c))
          /\ (TimeoutFetchedBy(c) /\ game.winner # "none")
                => (tx'[Bg(c)].pc = "idle" /\ store' = store)]_vars

(***************************************************************************)
(* C15: a timeout transaction goes on to change the turn only if, in the  *)
(* document it fetched, its caller is the player not on turn, the turn    *)
(* budget has run out (now - lastUpdate >= 30 s) and no winner is set;    *)
(* what it writes is the turn passed to its caller.                       *)
(***************************************************************************)
C15_OnlyWaitingSideFlips ==
  [][\A c \in Clients :
       LET game == TimeoutGame(c)
           new == tx'[Bg(c)].data.active_games[tx[Bg(c)].gid]
       IN (TimeoutFetchedBy(c) /\ tx'[Bg(c)].pc = "post")
            => /\ Participant(game, c)
               /\ game.currentTurn # SideOf(game, c)
               /\ now - game.lastUpdate >= TURN_SECONDS
               /\ game.winner = "none"
               /\ new.currentTurn = SideOf(game, c)]_vars

(***************************************************************************)
(* The sweep. App calls autoCleanup() once when it mounts: one fetch, then *)
(* updateOnlineData with the cleaned copy of what was fetched. online.ts   *)
(* posts only when cleaning changed the document, part_007 when            *)
(* lastCleanup is unset or more than ten minutes old.                      *)
(***************************************************************************)
CLEANUP_INTERVAL == 600

SweepDue(im, data, t) ==
  IF im = "versioned"
    THEN data.lastCleanup = Null \/ t - data.lastCleanup > CLEANUP_INTERVAL
    ELSE cleanupOldData(im, data, t) # data

\* the fetch of autoCleanup returns to a client that has just mounted
AutoCleanup(c) ==
  LET data == Normalize(impl, store)
      bg == <<c, "bg">>
  IN /\ app[c].status = "online_setup"
     /\ tx[<<c, "fg">>].pc = "idle"
     /\ tx[bg].pc = "idle"
     /\ txCount < TxBudget(scenario)
     /\ txCount' = txCount + 1
     /\ tx' = IF SweepDue(impl, data, now)
                THEN [tx EXCEPT ![bg] = [IdleTx EXCEPT !.pc = "post", !.kind = "cleanup",
                                                      !.data = cleanupOldData(impl, data, now),
                                                      !.baseSeq = seq]]
                ELSE tx
     /\ UNCHANGED <<polled, board, edits, result, scenario, impl, store, seq, now, nextGame, failures, app>>

\* the match in play, a queue entry left behind by client 3, and client 3 reloading the page
SweepInit ==
  /\ scenario = "sweep"
  /\ impl \in {"lww", "versioned"}
  /\ seq = 0
  /\ now = 0
  /\ txCount = 0
  /\ failures = 0
  /\ tx = [p \in Procs |-> IdleTx]
  /\ store = [EmptyDoc EXCEPT
        !.version = Versions(impl, 12),
        !.waiting_players = <<[id |-> 3, timestamp |-> 0]>>,
        !.active_games[1] =
           [NewGame([id |-> 1, timestamp |-> 0], [id |-> 2, timestamp |-> 0], 0, FALSE, Null)
              EXCEPT !.cells = LateBoard]]
  /\ app = [c \in Clients |->
        IF c \in {1, 2}
          THEN [InitApp EXCEPT !.status = "playing", !.mode = "online", !.activeGameId = 1,
                               !.isHost = (c = 1), !.cells = LateBoard]
          ELSE InitApp]
  /\ nextGame = 2
  /\ NoLocalGame

SweepNext ==
  \/ \E c \in Clients : AutoCleanup(c)
  \/ \E c \in Clients, cellId \in MoveCells, numberVal \in MoveNums : SubmitMove(c, cellId, numberVal)
  \/ \E c \in Clients : PollGame(c)
  \/ \E p \in Procs : TxFetchOk(p)
  \/ \E p \in Procs : TxPostOk(p)
  \/ \E c \in Clients : MoveFetch(c)
  \/ \E c \in Clients : MoveResync(c)
  \/ Tick

SweepSpec == SweepInit /\ [][SweepNext]_vars

(***************************************************************************)
(* C16: recovery from a crashed player. When the player on turn (p1,      *)
(* client 1) has stopped acting, the opponent keeps polling and the store *)
(* is reachable, a match waiting on p1 with a full turn budget of clock   *)
(* ahead eventually has its turn passed on or gets a winner.              *)
(***************************************************************************)
WaitingOnCrashed(g) ==
  /\ HasGame(store, g)
  /\ store.active_games[g].currentTurn = "p1"
  /\ store.active_games[g].winner = "none"
  /\ store.active_games[g].lastUpdate + TURN_SECONDS <= Horizon(scenario)

C16_CrashedPlayerRecovered ==
  \A g \in GameIds :
    WaitingOnCrashed(g) ~>
      (HasGame(store, g) /\ (store.active_games[g].currentTurn # "p1"
                              \/ store.active_games[g].winner # "none"))

\* the opponent's timeout has passed the turn on although nobody moved
C16_Witness ==
  /\ scenario = "crashed"
  /\ HasGame(store, 1)
  /\ store.active_games[1].cells = LateBoard
  /\ store.active_games[1].currentTurn = "p2"
  /\ store.active_games[1].lastUpdate >= TURN_SECONDS

(***************************************************************************)
(* C17: the sweep cannot clobber a concurrent write. When the POST of a   *)
(* sweep lands, every match and every queue entry that is in the store at *)
(* that moment and that the TTL rule does not remove is in the store      *)
(* afterwards, unchanged: the sweep never writes back an older copy.      *)
(***************************************************************************)
SweepLands(c) ==
  /\ tx[Bg(c)].kind = "cleanup"
  /\ tx[Bg(c)].pc = "post"
  /\ tx'[Bg(c)].pc = "idle"

C17_SweepKeepsCommittedWrites ==
  [][\A c \in Clients :
       SweepLands(c) =>
         /\ \A g \in GameIds :
              (HasGame(store, g) /\ now - store.active_games[g].lastUpdate < GameTTL(impl))
                => store'.active_games[g] = store.active_games[g]
         /\ \A i \in DOMAIN store.waiting_players :
              now - store.waiting_players[i].timestamp < WaitingTTL(impl)
                => \E j \in DOMAIN store'.waiting_players :
                     store'.waiting_players[j] = store.waiting_players[i]]_vars

(***************************************************************************)
(* The rule engine on its own. calculateResults is handed the cells of a  *)
(* board: one of two filled boards, changed by up to MaxEdits swaps of    *)
(* two cells, copies of one slot of a row onto the other, or cells left   *)
(* empty.                                                                 *)
(***************************************************************************)
\* row 0: p1 3, p2 7, key 6; master key 4; a permutation of 1..10
ParityBoard == [i \in CellIds |->
  CASE i = 0 -> 3 [] i = 1 -> 7 [] i = 2 -> 6
    [] i = 3 -> 1 [] i = 4 -> 2 [] i = 5 -> 5
    [] i = 6 -> 8 [] i = 7 -> 9 [] i = 8 -> 10
    [] i = 9 -> 4]

\* the same with key 7 in row 0
OddKeyBoard == [ParityBoard EXCEPT ![2] = 7]

EvalInit ==
  /\ scenario = "rules"
  /\ impl = "lww"
  /\ store = EmptyDoc
  /\ seq = 0
  /\ now = 0
  /\ nextGame = 1
  /\ txCount = 0
  /\ failures = 0
  /\ app = [c \in Clients |-> InitApp]
  /\ tx = [p \in Procs |-> IdleTx]
  /\ board \in {ParityBoard, OddKeyBoard}
  /\ edits = 0
  /\ result = NotCalled
  /\ polled = [c \in Clients |-> NoPoll]

Edited(cells) ==
  /\ edits < MaxEdits
  /\ board' = cells
  /\ board' # board
  /\ edits' = edits + 1
  /\ result' = NotCalled
  /\ UNCHANGED <<polled, scenario, impl, store, seq, now, nextGame, txCount, failures, app, tx>>

SwapCells(i, j) ==
  /\ i < j
  /\ Edited([board EXCEPT ![i] = board[j], ![j] = board[i]])

\* both players put the same number in a row
CopySlot(i, j) ==
  /\ CellRow(i) = CellRow(j)
  /\ {CellType(i), CellType(j)} = {"p1", "p2"}
  /\ Edited([board EXCEPT ![i] = board[j]])

ClearCell(i) ==
  /\ board[i] # Null
  /\ Edited([board EXCEPT ![i] = Null])

Evaluate ==
  /\ result = NotCalled
  /\ result' = calculateResults(board)
  /\ UNCHANGED <<polled, board, edits, scenario, impl, store, seq, now, nextGame, txCount, failures,
                 app, tx>>

EvalNext ==
  \/ \E i, j \in CellIds : SwapCells(i, j)
  \/ \E i, j \in CellIds : CopySlot(i, j)
  \/ \E i \in CellIds : ClearCell(i)
  \/ Evaluate

EvalSpec == EvalInit /\ [][EvalNext]_vars

Evaluated == result # NotCalled
Complete(cells) == \A i \in CellIds : cells[i] # Null
IsPermutation(cells) == {cells[i] : i \in CellIds} = 1..TOTAL_NUMBERS
Rows == 0..2

(***************************************************************************)
(* C18: for a board whose ten cells hold a permutation of 1..10,          *)
(* calculateResults returns one row outcome for each of rows 0, 1, 2 (in  *)
(* that order), p1Score and p2Score are the numbers of rows each player   *)
(* won, and overallWinner is the player with strictly more row wins, tie  *)
(* exactly when the counts are equal.                                     *)
(***************************************************************************)
RowsWonBy(res, who) ==
  Cardinality({k \in DOMAIN res.rowResults : res.rowResults[k].winner = who})

C18_OneOutcomePerRowAndMajority ==
  (Evaluated /\ IsPermutation(board)) =>
    /\ result # Thrown
    /\ Len(result.rowResults) = 3
    /\ \A r \in Rows : result.rowResults[r + 1].rowId = r
    /\ \A r \in Rows : result.rowResults[r + 1].winner \in {"p1", "p2", "tie"}
    /\ result.p1Score = RowsWonBy(result, "p1")
    /\ result.p2Score = RowsWonBy(result, "p2")
    /\ result.overallWinner =
         (IF RowsWonBy(result, "p1") > RowsWonBy(result, "p2") THEN "p1"
          ELSE IF RowsWonBy(result, "p2") > RowsWonBy(result, "p1") THEN "p2" ELSE "tie")

\* a permutation other than the two starting boards, evaluated, won two rows to one
C18_Witness ==
  /\ Evaluated
  /\ IsPermutation(board)
  /\ edits > 0
  /\ result # Thrown
  /\ result.p1Score = 2
  /\ result.p2Score = 1
  /\ result.overallWinner = "p1"

(***************************************************************************)
(* C19: parity rule. For every row of a complete board: when the master   *)
(* key and the row's key have the same parity the row goes to the slot    *)
(* with the strictly smaller value, otherwise to the slot with the        *)
(* strictly larger value; the row is a tie exactly when the two slot      *)
(* values are equal. Master 4, key 6, p1 3, p2 7 gives p1; master 4,      *)
(* key 7, p1 3, p2 7 gives p2.                                            *)
(***************************************************************************)
ParityWinner(m, k, a, b) ==
  IF a = b THEN "tie"
  ELSE IF (m % 2) = (k % 2)
    THEN (IF a < b THEN "p1" ELSE "p2")
    ELSE (IF a > b THEN "p1" ELSE "p2")

C19_ParityRule ==
  (Evaluated /\ Complete(board)) =>
    /\ result # Thrown
    /\ Len(result.rowResults) = 3
    /\ \A r \in Rows :
         result.rowResults[r + 1].winner =
           ParityWinner(board[9], board[3 * r + 2], board[3 * r], board[3 * r + 1])
    /\ ParityWinner(4, 6, 3, 7) = "p1"
    /\ ParityWinner(4, 7, 3, 7) = "p2"

\* the second example of the rule and a row with equal slot values, on one evaluated board
C19_Witness ==
  /\ Evaluated
  /\ Complete(board)
  /\ board[9] = 4 /\ board[2] = 7 /\ board[0] = 3 /\ board[1] = 7
  /\ result.rowResults[1].winner = "p2"
  /\ \E r \in Rows : /\ board[3 * r] = board[3 * r + 1]
                       /\ result.rowResults[r + 1].winner = "tie"

(***************************************************************************)
(* C20: calculateResults fails whenever one of the ten cells is empty, be *)
(* it a player slot, a row key or the master key; it never returns a      *)
(* result for a board that is not completely filled.                      *)
(***************************************************************************)
C20_IncompleteBoardFails ==
  (Evaluated /\ ~Complete(board)) => result = Thrown

(***************************************************************************)
(* The score of a partly filled board (evaluatePartialBoard). The boards  *)
(* are the filled board above with any set of its cells left empty, and   *)
(* what up to MaxPlacements placements of unused numbers make of them.    *)
(***************************************************************************)
\* the loop body with the lower number winning whatever the keys are
PartialRowPointLowOnly(cells, r) ==
  LET p1v == cells[RowCell(r, "p1")]
      p2v == cells[RowCell(r, "p2")]
      keyv == cells[RowCell(r, "key")]
      masterVal == cells[MasterCell]
  IN IF p1v # Null /\ p2v # Null /\ keyv # Null /\ masterVal # Null
       THEN (IF p1v < p2v THEN "p1" ELSE IF p2v < p1v THEN "p2" ELSE "none")
       ELSE "none"

\* the loop body of evaluatePartialBoard for row r: the point goes to "p1", "p2" or "none"
PartialRowPoint(cells, r) ==
  LET p1v == cells[RowCell(r, "p1")]
      p2v == cells[RowCell(r, "p2")]
      keyv == cells[RowCell(r, "key")]
      masterVal == cells[MasterCell]
  IN IF p1v # Null /\ p2v # Null /\ keyv # Null /\ masterVal # Null
       THEN IF isEven(masterVal) = isEven(keyv)
              THEN (IF p1v < p2v THEN "p1" ELSE IF p2v < p1v THEN "p2" ELSE "none")
              ELSE (IF p1v > p2v THEN "p1" ELSE IF p2v > p1v THEN "p2" ELSE "none")
       ELSE "none"

\* a row won by p2 counted twice
PointForP2Double(pt) == CASE pt = "p2" -> 2 [] pt = "p1" -> -1 [] OTHER -> 0

\* p2Score - p1Score when the point of one row has gone to pt
PointForP2(pt) == CASE pt = "p2" -> 1 [] pt = "p1" -> -1 [] OTHER -> 0

\* the difference taken the other way round
evaluatePartialBoardForP1(cells) ==
  0 - (PointForP2(PartialRowPoint(cells, 0)) + PointForP2(PartialRowPoint(cells, 1))
         + PointForP2(PartialRowPoint(cells, 2)))

evaluatePartialBoard(cells) ==
  PointForP2(PartialRowPoint(cells, 0)) + PointForP2(PartialRowPoint(cells, 1))
    + PointForP2(PartialRowPoint(cells, 2))

getAvailableNumbers(cells) == {n \in 1..10 : \A i \in CellIds : cells[i] # n}

EmptyCells(cells) == {i \in CellIds : cells[i] = Null}

\* cells of the filled board, those of the set left empty
PartlyFilled(cells, left) == [i \in CellIds |-> IF i \in left THEN Null ELSE cells[i]]

PartialInit ==
  /\ scenario = "partial"
  /\ impl = "lww"
  /\ store = EmptyDoc
  /\ seq = 0
  /\ now = 0
  /\ nextGame = 1
  /\ txCount = 0
  /\ failures = 0
  /\ app = [c \in Clients |-> InitApp]
  /\ tx = [p \in Procs |-> IdleTx]
  /\ board \in {PartlyFilled(ParityBoard, left) : left \in SUBSET CellIds}
  /\ edits = 0
  /\ result = NotCalled
  /\ polled = [c \in Clients |-> NoPoll]

\* a player puts an unused number into an empty cell
PlaceNumber(i, n) ==
  /\ edits < MaxPlacements
  /\ board[i] = Null
  /\ n \in getAvailableNumbers(board)
  /\ board' = [board EXCEPT ![i] = n]
  /\ edits' = edits + 1
  /\ result' = NotCalled
  /\ UNCHANGED <<polled, scenario, impl, store, seq, now, nextGame, txCount, failures, app, tx>>

EvaluatePartial ==
  /\ result = NotCalled
  /\ result' = [score |-> evaluatePartialBoard(board)]
  /\ UNCHANGED <<polled, board, edits, scenario, impl, store, seq, now, nextGame, txCount, failures,
                 app, tx>>

PartialNext ==
  \/ \E i \in CellIds, n \in 1..TOTAL_NUMBERS : PlaceNumber(i, n)
  \/ EvaluatePartial

PartialSpec == PartialInit /\ [][PartialNext]_vars

\* row r of the cells has its two slots, its key and the master key filled
Determinable(cells, r) ==
  /\ cells[3 * r] # Null
  /\ cells[3 * r + 1] # Null
  /\ cells[3 * r + 2] # Null
  /\ cells[9] # Null

RowsDecidedFor(cells, who) ==
  {r \in Rows : /\ Determinable(cells, r)
                /\ ParityWinner(cells[9], cells[3 * r + 2], cells[3 * r], cells[3 * r + 1]) = who}

(***************************************************************************)
(* C21: evaluatePartialBoard gives, for every board with 0 to 10 filled   *)
(* cells, a number: the rows won by p2 minus the rows won by p1, counting *)
(* only rows whose two slots and key are filled while the master key is   *)
(* filled too; a row missing one of the four values counts for nothing.   *)
(***************************************************************************)
C21_PartialScore ==
  (result # NotCalled) =>
    /\ result.score \in -3..3
    /\ result.score = Cardinality(RowsDecidedFor(board, "p2"))
                        - Cardinality(RowsDecidedFor(board, "p1"))

\* scored with one row decided for p1 while a row with both slots filled waits for its key
C21_Witness ==
  /\ result # NotCalled
  /\ result.score = -1
  /\ Cardinality(EmptyCells(board)) >= 3
  /\ \E r \in Rows : board[3 * r] # Null /\ board[3 * r + 1] # Null /\ board[3 * r + 2] = Null

(***************************************************************************)
(* C22: the partial score is monotonic under one placement in p2's        *)
(* favour. For any board and any one placement into an empty cell after   *)
(* which a row that was undetermined is won by p2, the score after the    *)
(* placement is not lower than the score before it.                       *)
(***************************************************************************)
\* the step placed a number into cell i, empty before
PlacedInto(i) ==
  /\ board[i] = Null
  /\ board'[i] # Null
  /\ \A j \in CellIds \ {i} : board'[j] = board[j]

\* row r was undetermined before the step and is won by p2 after it
TurnsToP2(r) ==
  /\ ~Determinable(board, r)
  /\ r \in RowsDecidedFor(board', "p2")

C22_PlacementForP2Monotone ==
  [][\A i \in CellIds :
       (PlacedInto(i) /\ \E r \in Rows : TurnsToP2(r))
         => evaluatePartialBoard(board') >= evaluatePartialBoard(board)]_vars

(***************************************************************************)
(* C22, as the code has it: the score is monotonic under a placement into *)
(* a slot or a row key. Such a placement decides its own row only, so     *)
(* when that row turns to p2 the score rises by exactly one. A placement  *)
(* of the master key decides every filled row at once and is not covered. *)
(***************************************************************************)
C22_RowPlacementForP2Monotone ==
  [][\A i \in CellIds \ {9} :
       (PlacedInto(i) /\ \E r \in Rows : TurnsToP2(r))
         => evaluatePartialBoard(board') = evaluatePartialBoard(board) + 1]_vars

\* the one placement went into a slot or key, its row is now p2's, and the board was scored
C22_Witness ==
  /\ edits = 1
  /\ result # NotCalled
  /\ \E i \in CellIds \ {9} :
       /\ board[i] \notin {Null, ParityBoard[i]}
       /\ (i \div 3) \in RowsDecidedFor(board, "p2")
  /\ result.score >= 0

(***************************************************************************)
(* The computer player (getBestMove and its helpers). Math.random() is a  *)
(* draw: the flag of the 30% mistake and the two indices getRandomMove    *)
(* computes from it. emptyCells is in cell order, availableNums ascends.  *)
(***************************************************************************)
NoMove == [none |-> TRUE]                  \* null
Infinity == 1000

RECURSIVE Ascending(_)
Ascending(S) ==
  IF S = {} THEN << >>
  ELSE LET m == CHOOSE x \in S : \A y \in S : x <= y
       IN <<m>> \o Ascending(S \ {m})

\* the (cell, number) pairs in the order of the nested loops: cells outside, numbers inside
MovesInOrder(emptyCells, availableNums) ==
  [k \in 1..(Len(emptyCells) * Len(availableNums)) |->
     [cellId |-> emptyCells[((k - 1) \div Len(availableNums)) + 1],
      number |-> availableNums[((k - 1) % Len(availableNums)) + 1]]]

WithMove(cells, mv) == [cells EXCEPT ![mv.cellId] = mv.number]

Without(nums, n) == SelectSeq(nums, LAMBDA x : x # n)

Max2(a, b) == IF a >= b THEN a ELSE b
Min2(a, b) == IF a <= b THEN a ELSE b

\* the random index taken as a cell id of the whole board
getRandomMoveAnyCell(emptyCells, availableNums, draw) ==
  [cellId |-> draw.cell - 1, number |-> availableNums[draw.num]]

getRandomMove(emptyCells, availableNums, draw) ==
  [cellId |-> emptyCells[draw.cell], number |-> availableNums[draw.num]]

\* the nested loops of findBestGreedyMove from move k on
RECURSIVE GreedyLoop(_, _, _, _, _)
GreedyLoop(currentCells, moves, k, bestScore, bestMove) ==
  IF k > Len(moves) THEN bestMove
  ELSE IF evaluatePartialBoard(WithMove(currentCells, moves[k])) > bestScore
    THEN GreedyLoop(currentCells, moves, k + 1,
                    evaluatePartialBoard(WithMove(currentCells, moves[k])), moves[k])
    ELSE GreedyLoop(currentCells, moves, k + 1, bestScore, bestMove)

findBestGreedyMove(currentCells, emptyCells, availableNums) ==
  GreedyLoop(currentCells, MovesInOrder(emptyCells, availableNums), 1, -Infinity, NoMove)

heuristicEvaluation(cells) == evaluatePartialBoard(cells) * 10

RECURSIVE minimax(_, _, _, _, _, _)
RECURSIVE MiniMaxLoop(_, _, _, _, _, _, _, _)

\* the two nested loops of minimax from move k on, with the running maxEval/minEval in acc
MiniMaxLoop(cells, availableNums, depth, alpha, beta, isMaximizing, k, acc) ==
  LET moves == MovesInOrder(Ascending(EmptyCells(cells)), availableNums)
  IN IF k > Len(moves) THEN acc
     ELSE LET evalScore == minimax(WithMove(cells, moves[k]), Without(availableNums, moves[k].number),
                                   depth - 1, alpha, beta, ~isMaximizing)
          IN IF isMaximizing
               THEN IF beta <= Max2(alpha, evalScore) THEN Max2(acc, evalScore)
                    ELSE MiniMaxLoop(cells, availableNums, depth, Max2(alpha, evalScore), beta,
                                     isMaximizing, k + 1, Max2(acc, evalScore))
               ELSE IF Min2(beta, evalScore) <= alpha THEN Min2(acc, evalScore)
                    ELSE MiniMaxLoop(cells, availableNums, depth, alpha, Min2(beta, evalScore),
                                     isMaximizing, k + 1, Min2(acc, evalScore))

minimax(cells, availableNums, depth, alpha, beta, isMaximizing) ==
  IF EmptyCells(cells) = {} THEN evaluatePartialBoard(cells) * 10
  ELSE IF depth = 0 THEN heuristicEvaluation(cells)
  ELSE MiniMaxLoop(cells, availableNums, depth, alpha, beta, isMaximizing, 1,
                   IF isMaximizing THEN -Infinity ELSE Infinity)

\* the loops of getMinimaxMove from move k on; beta stays Infinity, alpha is bestScore
RECURSIVE RootLoop(_, _, _, _, _, _)
RootLoop(cells, availableNums, maxDepth, k, bestScore, bestMove) ==
  LET moves == MovesInOrder(Ascending(EmptyCells(cells)), availableNums)
  IN IF k > Len(moves) THEN bestMove
     ELSE LET score == minimax(WithMove(cells, moves[k]), Without(availableNums, moves[k].number),
                               maxDepth - 1, bestScore, Infinity, FALSE)
          IN IF score > bestScore
               THEN RootLoop(cells, availableNums, maxDepth, k + 1, score, moves[k])
               ELSE RootLoop(cells, availableNums, maxDepth, k + 1, bestScore, bestMove)

\* a search that looks one move ahead only
getMinimaxMoveShallow(cells, availableNums, maxDepth, draw) ==
  LET bestMove == RootLoop(cells, availableNums, 1, 1, -Infinity, NoMove)
  IN IF bestMove # NoMove THEN bestMove
     ELSE getRandomMove(Ascending(EmptyCells(cells)), availableNums, draw)

getMinimaxMove(cells, availableNums, maxDepth, draw) ==
  LET bestMove == RootLoop(cells, availableNums, maxDepth, 1, -Infinity, NoMove)
  IN IF bestMove # NoMove THEN bestMove
     ELSE getRandomMove(Ascending(EmptyCells(cells)), availableNums, draw)

\* hard difficulty falling for the 30% mistake of medium
getBestMoveHardMistakes(cells, difficulty, draw) ==
  LET availableNums == Ascending(getAvailableNumbers(cells))
      emptyCells == Ascending(EmptyCells(cells))
      greedy == findBestGreedyMove(cells, emptyCells, availableNums)
  IN IF Len(availableNums) = 0 \/ Len(emptyCells) = 0 THEN NoMove
     ELSE IF difficulty = "easy" THEN getRandomMove(emptyCells, availableNums, draw)
     ELSE IF draw.mistake THEN getRandomMove(emptyCells, availableNums, draw)
     ELSE IF difficulty = "medium"
       THEN (IF greedy # NoMove THEN greedy ELSE getRandomMove(emptyCells, availableNums, draw))
     ELSE IF Len(availableNums) > 8
       THEN (IF greedy # NoMove THEN greedy ELSE getRandomMove(emptyCells, availableNums, draw))
       ELSE getMinimaxMove(cells, availableNums, IF Len(availableNums) <= 6 THEN 6 ELSE 4, draw)

getBestMove(cells, difficulty, draw) ==
  LET availableNums == Ascending(getAvailableNumbers(cells))
      emptyCells == Ascending(EmptyCells(cells))
      greedy == findBestGreedyMove(cells, emptyCells, availableNums)
  IN IF Len(availableNums) = 0 \/ Len(emptyCells) = 0 THEN NoMove
     ELSE IF difficulty = "easy" THEN getRandomMove(emptyCells, availableNums, draw)
     ELSE IF difficulty = "medium"
       THEN IF draw.mistake THEN getRandomMove(emptyCells, availableNums, draw)
            ELSE (IF greedy # NoMove THEN greedy
                  ELSE getRandomMove(emptyCells, availableNums, draw))
     ELSE IF Len(availableNums) > 8
       THEN (IF greedy # NoMove THEN greedy ELSE getRandomMove(emptyCells, availableNums, draw))
       ELSE getMinimaxMove(cells, availableNums, IF Len(availableNums) <= 6 THEN 6 ELSE 4, draw)

Difficulties == {"easy", "medium", "hard"}

\* what Math.random() near 0 and near 1 makes of a board: the mistake flag, the first or
\* the last index of emptyCells and of availableNums
Draws(cells) ==
  [mistake : BOOLEAN,
   cell : {1, Max2(1, Cardinality(EmptyCells(cells)))},
   num : {1, Max2(1, Cardinality(getAvailableNumbers(cells)))}]

\* the search is run on boards it can finish on: the opening shortcut or few empty cells
Searchable(cells, difficulty) ==
  \/ difficulty # "hard"
  \/ Cardinality(getAvailableNumbers(cells)) > 8
  \/ Cardinality(EmptyCells(cells)) <= MaxSearch

AiInit ==
  /\ scenario = "ai"
  /\ impl = "lww"
  /\ store = EmptyDoc
  /\ seq = 0
  /\ now = 0
  /\ nextGame = 1
  /\ txCount = 0
  /\ failures = 0
  /\ app = [c \in Clients |-> InitApp]
  /\ tx = [p \in Procs |-> IdleTx]
  /\ board \in {PartlyFilled(ParityBoard, left) : left \in SUBSET CellIds}
  /\ edits = 0
  /\ result = NotCalled
  /\ polled = [c \in Clients |-> NoPoll]

ChooseMove(difficulty, draw) ==
  /\ result = NotCalled
  /\ draw \in Draws(board)
  /\ Searchable(board, difficulty)
  /\ LET move == getBestMove(board, difficulty, draw)
     IN result' = [difficulty |-> difficulty, first |-> move, move |-> move, again |-> FALSE]
  /\ UNCHANGED <<polled, board, edits, scenario, impl, store, seq, now, nextGame, txCount, failures,
                 app, tx>>

\* the caller asks a second time for the same board
ChooseAgain(draw) ==
  /\ result # NotCalled
  /\ ~result.again
  /\ draw \in Draws(board)
  /\ result' = [result EXCEPT !.move = getBestMove(board, result.difficulty, draw),
                              !.again = TRUE]
  /\ UNCHANGED <<polled, board, edits, scenario, impl, store, seq, now, nextGame, txCount, failures,
                 app, tx>>

AllDraws == [mistake : BOOLEAN, cell : 1..TOTAL_NUMBERS, num : 1..TOTAL_NUMBERS]

AiNext ==
  \/ \E difficulty \in Difficulties, draw \in AllDraws : ChooseMove(difficulty, draw)
  \/ \E draw \in AllDraws : ChooseAgain(draw)

AiSpec == AiInit /\ [][AiNext]_vars

(***************************************************************************)
(* C23: minimax determinism. For a fixed board getBestMove at hard        *)
(* difficulty gives the same (cellId, number) on every invocation,        *)
(* whatever Math.random() draws: asked again, it answers as it did first. *)
(***************************************************************************)
C23_HardIsDeterministic ==
  (result # NotCalled /\ result.difficulty = "hard") => result.move = result.first

\* past the opening shortcut, the search was asked again and answered with its first move
C23_Witness ==
  /\ result # NotCalled
  /\ result.difficulty = "hard"
  /\ result.again
  /\ Cardinality(getAvailableNumbers(board)) <= 8
  /\ Cardinality(EmptyCells(board)) >= 2
  /\ result.move # NoMove
  /\ result.move = result.first

(***************************************************************************)
(* C24: getBestMove returns null only when the board has no empty cell or *)
(* no unused number; in every other case, at every difficulty, it returns *)
(* a move whose cell is empty and whose number is not yet on the board.   *)
(***************************************************************************)
NothingToPlace(cells) ==
  \/ \A i \in CellIds : cells[i] # Null
  \/ \A n \in 1..TOTAL_NUMBERS : \E i \in CellIds : cells[i] = n

LegalMove(cells, mv) ==
  /\ mv # NoMove
  /\ mv.cellId \in CellIds
  /\ cells[mv.cellId] = Null
  /\ mv.number \in 1..TOTAL_NUMBERS
  /\ \A i \in CellIds : cells[i] # mv.number

C24_MoveIsLegalOrNone ==
  (result # NotCalled) =>
    \A mv \in {result.first, result.move} :
      /\ mv = NoMove => NothingToPlace(board)
      /\ ~NothingToPlace(board) => LegalMove(board, mv)

\* medium difficulty answered twice for a board in mid-game, with two different legal moves
C24_Witness ==
  /\ result # NotCalled
  /\ result.difficulty = "medium"
  /\ result.again
  /\ result.move # result.first
  /\ Cardinality(EmptyCells(board)) \in 3..7
  /\ LegalMove(board, result.first)
  /\ LegalMove(board, result.move)

(***************************************************************************)
(* C25: re-sync before the next attempt. When a failed or aborted move    *)
(* submission hands the board back to the player (isSubmitting goes       *)
(* false), the local board and turn are those of the stored match as      *)
(* fetched in that step; when the re-sync fetch fails, or the match is    *)
(* not in the fetched document, no new submission is allowed.             *)
(***************************************************************************)
ResyncEnds(c) ==
  /\ tx[Fg(c)].pc = "resync"
  /\ tx'[Fg(c)].pc = "idle"

ConflictInit ==
  /\ scenario = "conflict"
  /\ impl = "versioned"
  /\ seq = 0
  /\ now = 0
  /\ txCount = 0
  /\ failures = 0
  /\ tx = [p \in Procs |-> IdleTx]
  /\ MatchInPlay
  /\ NoLocalGame

ConflictNext ==
  \/ \E c \in Clients, cellId \in MoveCells, numberVal \in MoveNums : SubmitMove(c, cellId, numberVal)
  \/ \E c \in Clients : PollGame(c)
  \/ \E p \in Procs : TxFetchOk(p)
  \/ \E p \in Procs : TxPostOk(p)
  \/ \E p \in Procs : TxPostFail(p)
  \/ \E p \in Procs : TxRefetchOk(p)
  \/ \E c \in Clients : MoveFetch(c)
  \/ \E c \in Clients : MoveResync(c)
  \/ Tick

ConflictSpec == ConflictInit /\ [][ConflictNext]_vars

(***************************************************************************)
(* C26: conflict step. When a POST has failed and the document fetched    *)
(* afterwards has a version greater than the one the attempt started      *)
(* from, the attempt's modified copy is dropped: nothing is written in    *)
(* that step, the copy is not posted again, and while attempts are left   *)
(* the transaction goes back to fetching, so that the only copy it can    *)
(* post next is the transform of a newly fetched document.                *)
(***************************************************************************)
ConflictSeen(p) ==
  /\ tx[p].pc = "refetch"
  /\ tx'[p] # tx[p]
  /\ failures' = failures
  /\ Normalize(impl, store).version > tx[p].data.version

\* process p goes from fetching to posting in this step
StartsPosting(p) == tx[p].pc = "fetch" /\ tx'[p].pc = "post"

C26_ConflictDiscardsCopy ==
  [][\A p \in Procs :
       /\ ConflictSeen(p) =>
            /\ store' = store
            /\ tx'[p].pc # "post"
            /\ (tx[p].attempt + 1 < MAX_TX_RETRIES) =>
                 (tx'[p].pc = "fetch" /\ tx'[p].attempt = tx[p].attempt + 1)
       /\ (StartsPosting(p) /\ tx[p].attempt > 0) =>
            /\ tx'[p].data.version = Normalize(impl, store).version
            /\ tx'[p].data = Transformed(tx[p], p[1], Normalize(impl, store), tx'[p].joined)]_vars

\* client 1's move met the write of client 2's timeout: its POST failed without arriving,
\* the stored version had moved on, and the move is back at fetching
C26_Witness ==
  /\ scenario = "conflict"
  /\ tx[<<1, "fg">>].kind = "move"
  /\ tx[<<1, "fg">>].pc = "fetch"
  /\ tx[<<1, "fg">>].attempt = 1
  /\ tx[<<1, "fg">>].landed = 0
  /\ failures = 1
  /\ store.version > tx[<<1, "fg">>].data.version

(***************************************************************************)
(* The live row feedback: on every render App computes                    *)
(* useMemo(() => calculateResults(cells), [cells]) from its board.        *)
(***************************************************************************)
realTimeResults(c) == calculateResults(app[c].cells)

(***************************************************************************)
(* C27: the client never calls calculateResults on an incomplete board.   *)
(* In every state the board each client renders its row feedback from    *)
(* has all ten cells filled, and the call does not fail.                  *)
(***************************************************************************)
C27_EvaluateOnlyOnCompleteBoard ==
  \A c \in Clients :
    /\ \A i \in CellIds : app[c].cells[i] # Null
    /\ realTimeResults(c) # Thrown

(***************************************************************************)
(* Public matchmaking on its own, with the "Avbryt" button of the         *)
(* matchmaking screen: it takes the client back to the menu and leaves    *)
(* its queue entry and its waitInterval alone.                            *)
(***************************************************************************)
CancelMatchmaking(c) ==
  /\ app[c].status = "matchmaking"
  /\ tx[<<c, "fg">>].pc = "idle"
  /\ app' = [app EXCEPT ![c].status = "online_setup", ![c].activeGameId = Null,
                        ![c].privateLobbyKey = Null]
  /\ UNCHANGED <<polled, board, edits, result, scenario, impl, store, seq, now, nextGame, txCount,
                 failures, tx>>

SeekInit ==
  /\ scenario = "seek"
  /\ impl \in {"lww", "versioned"}
  /\ seq = 0
  /\ now = 0
  /\ txCount = 0
  /\ failures = 0
  /\ tx = [p \in Procs |-> IdleTx]
  /\ store = EmptyDoc
  /\ app = [c \in Clients |-> InitApp]
  /\ nextGame = 1
  /\ NoLocalGame

SeekNext ==
  \/ \E c \in Clients : FindMatch(c)
  \/ \E c \in Clients : CancelMatchmaking(c)
  \/ \E c \in Clients : WaitPoll(c)
  \/ \E p \in Procs : TxFetchOk(p)
  \/ \E p \in Procs : TxPostOk(p)

SeekSpec == SeekInit /\ [][SeekNext]_vars

(***************************************************************************)
(* C28: after a pairing transaction commits, neither of the two paired    *)
(* players has an entry in the waiting queue.                             *)
(***************************************************************************)
PairingCommits(p) ==
  /\ tx[p].kind = "pair"
  /\ PostedBy(p)
  /\ Accepted

C28_PairedPlayersLeaveQueue ==
  [][\A p \in Procs :
       PairingCommits(p) =>
         /\ ~InQueue(store', tx[p].opp.id)
         /\ ~InQueue(store', p[1])]_vars

(***************************************************************************)
(* C29: a seeker is added to the waiting queue only when the document its *)
(* transaction works on holds no other player's waiting entry, so two     *)
(* different seekers are never queued side by side.                       *)
(***************************************************************************)
OthersQueued(data, me) ==
  {i \in DOMAIN data.waiting_players : data.waiting_players[i].id # me}

EnqueuesSelf(p) ==
  /\ tx[p].kind = "enqueue"
  /\ FetchedBy(p)
  /\ tx'[p].pc = "post"
  /\ ~InQueue(Normalize(impl, store), p[1])
  /\ InQueue(tx'[p].data, p[1])

QueuedIds(data) == {data.waiting_players[i].id : i \in DOMAIN data.waiting_players}

C29_EnqueueOnlyWhenNobodyWaits ==
  [][/\ \A p \in Procs :
          EnqueuesSelf(p) => OthersQueued(Normalize(impl, store), p[1]) = {}
     /\ Cardinality(QueuedIds(store')) <= 1]_vars

(***************************************************************************)
(* C30: when a pairing transaction aborts because the chosen waiting      *)
(* entry has vanished, the client stays in public matchmaking: it is a    *)
(* seeker again, never in a match against the bot.                        *)
(***************************************************************************)
PairingAborts(p) ==
  /\ tx[p].kind = "pair"
  /\ FetchedBy(p)
  /\ tx'[p].pc = "idle"
  /\ ~InQueue(Normalize(impl, store), tx[p].opp.id)

C30_AbortedPairingSeeksAgain ==
  [][\A p \in Procs :
       PairingAborts(p) =>
         /\ app'[p[1]].mode # "online_bot"
         /\ app'[p[1]].status \in {"online_setup", "matchmaking"}]_vars

(***************************************************************************)
(* C31: polling stops when the client leaves the state that started it:   *)
(* once a client has left matchmaking, no result of its matchmaking poll  *)
(* changes its mode, status, active match or board.                       *)
(***************************************************************************)
LeftoverPollApplies(c) ==
  /\ app[c].status # "matchmaking"
  /\ app[c].waitPoll
  /\ ~app'[c].waitPoll
  /\ <<app'[c].mode, app'[c].status, app'[c].activeGameId, app'[c].cells>> #
       <<app[c].mode, app[c].status, app[c].activeGameId, app[c].cells>>

C31_PollingStopsOnExit ==
  [][\A c \in Clients : ~LeftoverPollApplies(c)]_vars

(***************************************************************************)
(* C32: at hard difficulty with at most 8 unused numbers the returned     *)
(* move has the greatest depth-limited minimax value of all moves (p2     *)
(* maximizing, p1 minimizing, leaves scored by evaluatePartialBoard x 10),*)
(* and the search with alpha-beta cuts gives the value of the same search *)
(* without cuts.                                                          *)
(***************************************************************************)
SetMax(S) == CHOOSE x \in S : \A y \in S : y <= x
SetMin(S) == CHOOSE x \in S : \A y \in S : x <= y

\* the search without alpha and beta: every move of every node is looked at
RECURSIVE PlainMinimax(_, _, _, _)
PlainMinimax(cells, nums, depth, isMaximizing) ==
  IF EmptyCells(cells) = {} THEN evaluatePartialBoard(cells) * 10
  ELSE IF depth = 0 THEN evaluatePartialBoard(cells) * 10
  ELSE LET vals == {PlainMinimax([cells EXCEPT ![i] = n], nums \ {n}, depth - 1, ~isMaximizing) :
                      i \in EmptyCells(cells), n \in nums}
       IN IF vals = {} THEN (IF isMaximizing THEN -Infinity ELSE Infinity)
          ELSE IF isMaximizing THEN SetMax(vals) ELSE SetMin(vals)

\* value of playing mv for p2 when the search is maxDepth plies deep
PlainMoveValue(cells, mv, maxDepth) ==
  PlainMinimax([cells EXCEPT ![mv.cellId] = mv.number],
               getAvailableNumbers(cells) \ {mv.number}, maxDepth - 1, FALSE)

HardDepth(cells) == IF Cardinality(getAvailableNumbers(cells)) <= 6 THEN 6 ELSE 4

SearchedHard ==
  /\ result # NotCalled
  /\ result.difficulty = "hard"
  /\ result.move # NoMove
  /\ Cardinality(getAvailableNumbers(board)) <= 8

C32_HardMoveIsMinimaxBest ==
  SearchedHard =>
    /\ PlainMoveValue(board, result.move, HardDepth(board)) =
         PlainMinimax(board, getAvailableNumbers(board), HardDepth(board), TRUE)
    /\ \A d \in 0..Cardinality(EmptyCells(board)), isMaximizing \in BOOLEAN :
         minimax(board, Ascending(getAvailableNumbers(board)), d, -Infinity, Infinity,
                 isMaximizing)
           = PlainMinimax(board, getAvailableNumbers(board), d, isMaximizing)

\* a search over several plies in which the moves differ in value, so that the best one
\* has to be found and cuts happen
C32_Witness ==
  /\ SearchedHard
  /\ Cardinality(EmptyCells(board)) >= 3
  /\ \E i \in EmptyCells(board), n \in getAvailableNumbers(board) :
       PlainMoveValue(board, [cellId |-> i, number |-> n], HardDepth(board)) <
         PlainMoveValue(board, result.move, HardDepth(board))

(***************************************************************************)
(* cleanupOldData applied to documents whose entries and matches have     *)
(* ages just below, at and just above the TTLs                            *)
(***************************************************************************)
AgesAround(ttl) == {ttl - 1, ttl, ttl + 1}

CleanTimes(im) == {GameTTL(im) + 1, GameTTL(im) + 7}

AgedQueues(im, t) ==
  LET entries == [id : Clients, timestamp : {t - a : a \in AgesAround(WaitingTTL(im))}]
  IN {<< >>} \cup {<<e>> : e \in entries} \cup {<<e, f>> : e \in entries, f \in entries}

AgedGames(im, t) ==
  [GameIds -> {NoGame} \cup
              {NewGame([id |-> 1, timestamp |-> 0], [id |-> 2, timestamp |-> 0],
                       t - a, FALSE, Null) : a \in AgesAround(GameTTL(im))}]

CleanInit ==
  /\ scenario = "clean"
  /\ impl \in {"lww", "versioned"}
  /\ now \in CleanTimes(impl)
  /\ \E q \in AgedQueues(impl, now), games \in AgedGames(impl, now) :
       store = [EmptyDoc EXCEPT !.waiting_players = q, !.active_games = games]
  /\ seq = 0
  /\ nextGame = 1
  /\ txCount = 0
  /\ failures = 0
  /\ app = [c \in Clients |-> InitApp]
  /\ tx = [p \in Procs |-> IdleTx]
  /\ NoLocalGame

\* a client fetches the document and cleans its copy
CleanCopy ==
  /\ result = NotCalled
  /\ result' = [fetched |-> Normalize(impl, store),
                cleaned |-> cleanupOldData(impl, Normalize(impl, store), now)]
  /\ UNCHANGED <<polled, board, edits, scenario, impl, store, seq, now, nextGame, txCount, failures,
                 app, tx>>

CleanSpec == CleanInit /\ [][CleanCopy]_vars

(***************************************************************************)
(* C33: cleanup keeps exactly the waiting entries younger than the        *)
(* waiting TTL and exactly the matches whose last update is younger than  *)
(* the match TTL, and hands every kept entry and match on unaltered.      *)
(***************************************************************************)
FreshEntries(q, t, ttl) == {i \in DOMAIN q : t - q[i].timestamp < ttl}

\* the k-th smallest member of a set of indices
NthOf(S, k) == CHOOSE i \in S : Cardinality({j \in S : j <= i}) = k

C33_CleanupKeepsExactlyFresh ==
  result # NotCalled =>
    LET before == result.fetched.waiting_players
        after == result.cleaned.waiting_players
        kept == FreshEntries(before, now, WaitingTTL(impl))
    IN /\ Len(after) = Cardinality(kept)
       /\ \A k \in 1..Len(after) : after[k] = before[NthOf(kept, k)]
       /\ \A g \in GameIds :
            LET game == result.fetched.active_games[g]
            IN result.cleaned.active_games[g] =
                 IF game # NoGame /\ now - game.lastUpdate < GameTTL(impl) THEN game ELSE NoGame

\* one entry and one match go, one entry and one match stay
C33_Witness ==
  /\ result # NotCalled
  /\ Len(result.fetched.waiting_players) = 2
  /\ Len(result.cleaned.waiting_players) = 1
  /\ \E g, h \in GameIds :
       /\ result.fetched.active_games[g] # NoGame
       /\ result.cleaned.active_games[g] = NoGame
       /\ result.cleaned.active_games[h] # NoGame

(***************************************************************************)
(* fetchOnlineData on what response.json() can give: null, or an object   *)
(* whose fields are absent, of the wrong type, or as the client writes    *)
(* them. A JSON value is a record with its kind and, where it matters,    *)
(* its content.                                                           *)
(***************************************************************************)
Absent == [kind |-> "absent"]              \* undefined
JsonNull == [kind |-> "null"]
JsonText == [kind |-> "text"]              \* a string where something else is expected
JsonList(q) == [kind |-> "list", val |-> q]
JsonObject(m) == [kind |-> "object", val |-> m]
JsonNumber(n) == [kind |-> "number", val |-> n]

OneGame == [g \in GameIds |->
              IF g = 1 THEN NewGame([id |-> 1, timestamp |-> 0], [id |-> 2, timestamp |-> 0],
                                    0, FALSE, Null)
              ELSE NoGame]

RawDocuments ==
  {JsonNull} \cup
  [kind : {"object"},
   waiting_players : {Absent, JsonText, JsonList(<< >>), JsonList(<<[id |-> 1, timestamp |-> 0]>>)},
   active_games : {Absent, JsonText, JsonNull, JsonObject(EmptyDoc.active_games),
                   JsonObject(OneGame)},
   version : {Absent, JsonText} \cup {JsonNumber(n) : n \in 1..MaxGames},
   lastCleanup : {Absent, JsonNumber(0)}]

FetchFailed == [ok |-> FALSE]

\* data?.field of the lww build: undefined when data is null
FieldOf(raw, f) == IF raw.kind = "object" THEN raw[f] ELSE Absent

\* the value fetchOnlineData returns once response.json() has given raw
fetchOnlineData(im, raw) ==
  IF im = "lww"
    THEN [ok |-> TRUE,
          data |-> [kind |-> "object",
                    waiting_players |-> IF FieldOf(raw, "waiting_players").kind = "list"
                                          THEN raw.waiting_players ELSE JsonList(<< >>),
                    active_games |-> IF FieldOf(raw, "active_games").kind = "object"
                                       THEN raw.active_games
                                       ELSE JsonObject(EmptyDoc.active_games),
                    version |-> Absent,
                    lastCleanup |-> Absent]]
  ELSE IF raw.kind = "null"
    THEN FetchFailed       \* data.version on null throws on every attempt
    ELSE [ok |-> TRUE,
          data |-> [raw EXCEPT !.version = IF @.kind = "number" THEN @ ELSE JsonNumber(1)]]

FetchInit ==
  /\ scenario = "fetch"
  /\ impl \in {"lww", "versioned"}
  /\ store \in RawDocuments
  /\ seq = 0
  /\ now = 0
  /\ nextGame = 1
  /\ txCount = 0
  /\ failures = 0
  /\ app = [c \in Clients |-> InitApp]
  /\ tx = [p \in Procs |-> IdleTx]
  /\ NoLocalGame

FetchDocument ==
  /\ result = NotCalled
  /\ result' = fetchOnlineData(impl, store)
  /\ UNCHANGED <<polled, board, edits, scenario, impl, store, seq, now, nextGame, txCount, failures,
                 app, tx>>

FetchSpec == FetchInit /\ [][FetchDocument]_vars

(***************************************************************************)
(* C34: every successful fetch gives a document with all three fields: a  *)
(* list as waiting queue (empty when the remote one is absent or not a    *)
(* list), an object as match map (empty when absent or not an object) and *)
(* a number as version (a default when absent).                           *)
(***************************************************************************)
Fetched == result # NotCalled /\ result.ok

C34_FetchGivesValidDocument ==
  Fetched =>
    /\ result.data.waiting_players.kind = "list"
    /\ result.data.active_games.kind = "object"
    /\ result.data.version.kind = "number"
    /\ FieldOf(store, "waiting_players").kind # "list" =>
         result.data.waiting_players = JsonList(<< >>)
    /\ FieldOf(store, "active_games").kind # "object" =>
         result.data.active_games = JsonObject(EmptyDoc.active_games)

(***************************************************************************)
(* C35: the winner is final. Once a match has a winner, no committed move *)
(* or timeout transaction of any client changes its board, turn or winner.*)
(***************************************************************************)
Decided(data, g) == HasGame(data, g) /\ data.active_games[g].winner # "none"

SameOutcome(g) ==
  /\ HasGame(store', g)
  /\ store'.active_games[g].cells = store.active_games[g].cells
  /\ store'.active_games[g].currentTurn = store.active_games[g].currentTurn
  /\ store'.active_games[g].winner = store.active_games[g].winner

C35_WinnerIsFinal ==
  [][\A p \in Procs :
       (PostedBy(p) /\ Accepted /\ tx[p].kind \in {"move", "timeout"}) =>
         \A g \in GameIds : Decided(store, g) => SameOutcome(g)]_vars

(***************************************************************************)
(* C36: the report of transactionalUpdate matches the store. It reports   *)
(* committed only when its write reached the store; a write that reached  *)
(* the store is never reported as failed, and the transform is never      *)
(* applied again on top of the transaction's own write.                   *)
(***************************************************************************)
InTransaction(t) == t.pc \in {"fetch", "post", "refetch"}

\* transactionalUpdate of the handler of client p[1] returns in this step
Returns(p) == p[2] = "fg" /\ InTransaction(tx[p]) /\ ~InTransaction(tx'[p])

\* the body POSTed by p is taken by the store in this step
LandsNow(p) == tx[p].pc = "post" /\ tx'[p] # tx[p] /\ seq' = seq + 1

HasLanded(p) == tx[p].landed > 0 \/ LandsNow(p)

AppliesAgain(p) == tx[p].landed > 0 /\ tx[p].pc = "fetch" /\ tx'[p].pc = "post"

C36_ReportMatchesStore ==
  [][\A p \in Procs :
       /\ (Returns(p) /\ app'[p[1]].lastOutcome = "committed") => HasLanded(p)
       /\ (Returns(p) /\ HasLanded(p)) => app'[p[1]].lastOutcome = "committed"
       /\ ~AppliesAgain(p)]_vars

(***************************************************************************)
(* The polling callback as the two steps it is: the await of              *)
(* fetchOnlineData, and the code after it, which runs whenever the        *)
(* response arrives and works on the document fetched earlier.            *)
(***************************************************************************)
\* the callback starts: isSubmitting is tested, then the document is fetched
PollFetch(c) ==
  LET a == app[c]
      data == Normalize(impl, store)
  IN /\ ~polled[c].pending
     /\ a.activeGameId # Null
     /\ a.mode = "online"
     /\ a.status = "playing"
     /\ ~isSubmitting(c)
     /\ HasGame(data, a.activeGameId)
     /\ polled' = [polled EXCEPT ![c] = [pending |-> TRUE, gid |-> a.activeGameId,
                                         game |-> data.active_games[a.activeGameId]]]
     /\ UNCHANGED <<board, edits, result, scenario, impl, store, seq, now, nextGame, txCount,
                    failures, app, tx>>

\* the rest of the callback: "Game Sync" with the fetched game, timeout and winner check
PollApply(c) ==
  LET a == app[c]
      game == polled[c].game
      amIP1 == game.p1.id = c
      myTurn == (game.currentTurn = "p1" /\ amIP1) \/ (game.currentTurn = "p2" /\ ~amIP1)
      synced == [a EXCEPT !.cells = game.cells, !.currentPlayer = game.currentTurn]
      bg == <<c, "bg">>
  IN /\ polled[c].pending
     /\ polled' = [polled EXCEPT ![c] = NoPoll]
     /\ app' = [app EXCEPT ![c] =
                  IF game.winner # "none" THEN finishGame(synced, game.cells) ELSE synced]
     /\ tx' = IF /\ now - game.lastUpdate >= TURN_SECONDS
                 /\ ~myTurn
                 /\ game.winner = "none"
                 /\ tx[bg].pc = "idle"
                THEN [tx EXCEPT ![bg] = [StartTx("timeout") EXCEPT !.gid = polled[c].gid]]
                ELSE tx
     /\ UNCHANGED <<board, edits, result, scenario, impl, store, seq, now, nextGame, txCount,
                    failures>>

PollInit ==
  /\ scenario = "polling"
  /\ impl \in {"lww", "versioned"}
  /\ seq = 0
  /\ now = 0
  /\ txCount = 0
  /\ failures = 0
  /\ tx = [p \in Procs |-> IdleTx]
  /\ MatchInPlay
  /\ NoLocalGame

PollNext ==
  \/ \E c \in Clients : PollFetch(c)
  \/ \E c \in Clients : PollApply(c)
  \/ \E c \in Clients, cellId \in MoveCells, numberVal \in MoveNums : SubmitMove(c, cellId, numberVal)
  \/ \E p \in Procs : TxFetchOk(p)
  \/ \E p \in Procs : TxPostOk(p)
  \/ \E c \in Clients : MoveFetch(c)
  \/ \E c \in Clients : MoveResync(c)

PollSpec == PollInit /\ [][PollNext]_vars

(***************************************************************************)
(* C37: the local view of a match never goes back. A polling callback     *)
(* never replaces the board the client shows by an older one: a cell      *)
(* shown filled is not shown empty after the callback.                    *)
(***************************************************************************)
PollApplied(c) == polled[c].pending /\ ~polled'[c].pending

ShownFilled(a) == {i \in CellIds : a.cells[i] # Null}

EvaluateBoth ==
  /\ result = NotCalled
  /\ result' = [full |-> calculateResults(board), score |-> evaluatePartialBoard(board)]
  /\ UNCHANGED <<polled, board, edits, scenario, impl, store, seq, now, nextGame, txCount,
                 failures, app, tx>>

CompareNext ==
  \/ \E i, j \in CellIds : SwapCells(i, j)
  \/ \E i, j \in CellIds : CopySlot(i, j)
  \/ EvaluateBoth

CompareSpec == EvalInit /\ [][CompareNext]_vars

(***************************************************************************)
(* C38: on every completely filled board evaluatePartialBoard gives       *)
(* p2Score - p1Score of calculateResults, and its sign agrees with        *)
(* overallWinner: positive p2, negative p1, zero tie.                     *)
(***************************************************************************)
C38_PartialAgreesWithFull ==
  (result # NotCalled /\ Complete(board)) =>
    /\ result.full # Thrown
    /\ result.score = result.full.p2Score - result.full.p1Score
    /\ result.full.overallWinner =
         (IF result.score > 0 THEN "p2" ELSE IF result.score < 0 THEN "p1" ELSE "tie")

\* an edited complete board that p2 wins by two rows to one
C38_Witness ==
  /\ result # NotCalled
  /\ Complete(board)
  /\ edits > 0
  /\ result.score = 1
  /\ result.full.p2Score = 2

(***************************************************************************)
(* Moves on a document that holds more than the match: client 3 has left  *)
(* an entry in the waiting queue and hosts a private lobby while clients  *)
(* 1 and 2 play.                                                          *)
(***************************************************************************)
BusyInit ==
  /\ scenario = "busy"
  /\ impl \in {"lww", "versioned"}
  /\ seq = 0
  /\ now = 0
  /\ txCount = 0
  /\ failures = 0
  /\ tx = [p \in Procs |-> IdleTx]
  /\ store = [EmptyDoc EXCEPT
        !.version = Versions(impl, 11),
        !.waiting_players = <<[id |-> 3, timestamp |-> 0]>>,
        !.active_games[1] =
           [NewGame([id |-> 1, timestamp |-> 0], [id |-> 2, timestamp |-> 0], 0, FALSE, Null)
              EXCEPT !.cells = LateBoard],
        !.active_games[2] = NewGame([id |-> 3, timestamp |-> 0], NoPlayer, 0, TRUE, 1)]
  /\ app = [c \in Clients |->
        IF c \in {1, 2}
          THEN [InitApp EXCEPT !.status = "playing", !.mode = "online", !.activeGameId = 1,
                               !.isHost = (c = 1), !.cells = LateBoard]
          ELSE [InitApp EXCEPT !.status = "matchmaking", !.activeGameId = 2, !.isHost = TRUE,
                               !.privateLobbyKey = 1, !.lastOutcome = "committed"]]
  /\ nextGame = 3
  /\ NoLocalGame

BusyNext ==
  \/ \E c \in Clients, cellId \in MoveCells, numberVal \in MoveNums : SubmitMove(c, cellId, numberVal)
  \/ \E p \in Procs : TxFetchOk(p)
  \/ \E p \in Procs : TxPostOk(p)
  \/ \E c \in Clients : MoveFetch(c)
  \/ \E c \in Clients : MoveResync(c)

BusySpec == BusyInit /\ [][BusyNext]_vars

(***************************************************************************)
(* C39: the move transform changes only the target match. The waiting     *)
(* queue and every other match are written back as fetched, and in the    *)
(* target match only the target cell, the turn, the winner and the time   *)
(* of the last update may differ.                                         *)
(***************************************************************************)
\* the transform of the move of p has been applied to the fetched document in this step
MoveTransformed(p) ==
  /\ tx[p].kind = "move"
  /\ FetchedBy(p)
  /\ tx'[p].pc = "post"

OnlyTargetChanged(fetched, written, gid, cellId) ==
  /\ written.waiting_players = fetched.waiting_players
  /\ \A g \in GameIds \ {gid} : written.active_games[g] = fetched.active_games[g]
  /\ HasGame(written, gid)
  /\ written.active_games[gid].p1 = fetched.active_games[gid].p1
  /\ written.active_games[gid].p2 = fetched.active_games[gid].p2
  /\ written.active_games[gid].isPrivate = fetched.active_games[gid].isPrivate
  /\ written.active_games[gid].privateKey = fetched.active_games[gid].privateKey
  /\ \A i \in CellIds \ {cellId} :
       written.active_games[gid].cells[i] = fetched.active_games[gid].cells[i]

C39_MoveChangesOnlyItsMatch ==
  [][\A p \in Procs :
       MoveTransformed(p) =>
         OnlyTargetChanged(Normalize(impl, store), tx'[p].data, tx[p].gid, tx[p].cell)]_vars

\* a move is about to be written while another player waits in the queue and another
\* match is in the document
C39_Witness ==
  \E p \in Procs :
    /\ tx[p].kind = "move"
    /\ tx[p].pc = "post"
    /\ tx[p].data.waiting_players # << >>
    /\ \E g \in GameIds \ {tx[p].gid} : HasGame(tx[p].data, g)
    /\ tx[p].data.active_games[tx[p].gid].cells # store.active_games[tx[p].gid].cells

====
